---- MODULE Spec2Model ----
(***************************************************************************)
(* Model of the instanced-mesh buffer manager (renderer/mesh.rs) and of    *)
(* the scene/physics bridge (scene.rs) of smashbit.                        *)
(*                                                                         *)
(* An InstanceRaw is modelled by the translation column of its model       *)
(* matrix (the only part the scene code reads) plus a ghost field uid that *)
(* names the instance occurrence the record was produced for.  A GPU       *)
(* buffer is a sequence of records addressed by byte offset; the queue     *)
(* executes writes and copies in submission order, so their effect is      *)
(* applied in program order.                                               *)
(***************************************************************************)
EXTENDS Integers, Sequences, FiniteSets, TLC

VARIABLES mesh, scene, op, panicked

vars == <<mesh, scene, op, panicked>>

(***************************************************************************)
(* Bounds of the model.                                                    *)
(***************************************************************************)
MaxLen == 3        \* live instances of the stand-alone mesh
MaxList == 2       \* instances handed to add_mesh or update_all_instances
MaxBatch == 2      \* length of an index list given to remove_instances_batch
MaxSpawn == 2      \* balls spawned over one run of the scene
MaxStatic == 2     \* instance nodes per glTF mesh

(***************************************************************************)
(* Program constants.                                                      *)
(***************************************************************************)
RecordSize == 100  \* size_of::<InstanceRaw>(): 16 + 9 floats of 4 bytes
IdShift == 16      \* stands for 1 << 64 in the packed 128-bit id

\* wgpu::Limits::default().max_buffer_size, the limit the device is
\* requested with: 256 MiB
MaxBufferSize == 268435456

\* 2^31 - 1: a u32 above it doubles past u32::MAX
HalfU32 == 2147483647

\* whether instance_capacity * 2 overflows u32
doubling_overflows(n) == n > HalfU32

\* instance_capacity * 2 as a build without overflow checks computes it in
\* u32, modulo 2^32
wrapping_double(n) ==
    IF doubling_overflows(n) THEN (n - HalfU32 - 1) * 2 ELSE n * 2

RECURSIVE as_u32(_)
\* instances.len() as u32: the length modulo 2^32
as_u32(n) ==
    IF n > HalfU32 /\ n - HalfU32 - 1 > HalfU32
    THEN as_u32(n - HalfU32 - 1 - HalfU32 - 1)
    ELSE n

Max(a, b) == IF a >= b THEN a ELSE b

Range(s) == {s[i] : i \in 1..Len(s)}

SeqsUpTo(S, n) == UNION {[1..k -> S] : k \in 0..n}

(***************************************************************************)
(* InstanceRaw                                                             *)
(***************************************************************************)
InstanceRaw(model, uid) == [model |-> model, uid |-> uid]

\* Default::default() / zero-initialised buffer memory
ZeroRecord == InstanceRaw(<<0, 0, 0>>, 0)

Positions == {<<0, 0, 1>>, <<0, 0, 3>>}

(***************************************************************************)
(* GPU buffer and queue                                                    *)
(***************************************************************************)
create_buffer(id, size) ==
    [id |-> id, size |-> size,
     data |-> [i \in 1..(size \div RecordSize) |-> ZeroRecord],
     error |-> size > MaxBufferSize]

create_buffer_init(id, contents) ==
    [id |-> id, size |-> Len(contents) * RecordSize,
     data |-> contents, error |-> FALSE]

\* queue.write_buffer(buffer, offset, bytes of recs); a write that does not
\* fit the buffer is rejected with a validation error
write_buffer(buffer, offset, recs) ==
    IF offset + Len(recs) * RecordSize > buffer.size
    THEN [buffer EXCEPT !.error = TRUE]
    ELSE LET slot == offset \div RecordSize
         IN  [buffer EXCEPT !.data =
                 [i \in 1..Len(buffer.data) |->
                     IF i - 1 >= slot /\ i - 1 < slot + Len(recs)
                     THEN recs[i - slot] ELSE buffer.data[i]]]

\* encoder.copy_buffer_to_buffer(src, 0, dst, 0, size) followed by submit
copy_buffer_to_buffer(src, dst, size) ==
    IF size > src.size \/ size > dst.size
    THEN [dst EXCEPT !.error = TRUE]
    ELSE LET n == size \div RecordSize
         IN  [dst EXCEPT !.data =
                 [i \in 1..Len(dst.data) |->
                     IF i <= n THEN src.data[i] ELSE dst.data[i]]]

(***************************************************************************)
(* Mesh (renderer/mesh.rs)                                                 *)
(***************************************************************************)
add_mesh(instances) ==
    [instance_buffer |-> create_buffer_init(0, instances),
     instance_capacity |-> Len(instances),
     instances |-> instances]

\* mutant: the new buffer is installed without copying the live prefix
resize_instance_buffer_no_copy(m, new_capacity) ==
    [m EXCEPT !.instance_buffer = create_buffer(m.instance_buffer.id + 1,
                                                new_capacity * RecordSize),
              !.instance_capacity = new_capacity]

\* mutant: the new buffer is installed but the capacity is not recorded
resize_instance_buffer_keep_capacity(m, new_capacity) ==
    LET new_buffer == create_buffer(m.instance_buffer.id + 1,
                                    new_capacity * RecordSize)
        copied == IF m.instances # <<>>
                  THEN copy_buffer_to_buffer(m.instance_buffer, new_buffer,
                                             Len(m.instances) * RecordSize)
                  ELSE new_buffer
    IN  [m EXCEPT !.instance_buffer = copied]

resize_instance_buffer(m, new_capacity) ==
    LET new_buffer == create_buffer(m.instance_buffer.id + 1,
                                    new_capacity * RecordSize)
        copied == IF m.instances # <<>>
                  THEN copy_buffer_to_buffer(m.instance_buffer, new_buffer,
                                             Len(m.instances) * RecordSize)
                  ELSE new_buffer
    IN  [m EXCEPT !.instance_buffer = copied,
                  !.instance_capacity = new_capacity]

\* mutant: capacity grows by one record instead of doubling
add_instance_grow_by_one(m, instance) ==
    LET m1 == IF Len(m.instances) >= m.instance_capacity
              THEN resize_instance_buffer(m, m.instance_capacity + 1)
              ELSE m
        pushed == Append(m1.instances, instance)
    IN  [m1 EXCEPT !.instances = pushed,
                   !.instance_buffer =
                       write_buffer(m1.instance_buffer,
                                    (Len(pushed) - 1) * RecordSize, <<instance>>)]

\* mutant: the doubling is taken in 16-bit arithmetic
grown_capacity_u16(instance_capacity) ==
    Max((instance_capacity * 2) % 65536, 1)

\* (self.instance_capacity * 2).max(1), the product taken in u32
grown_capacity(instance_capacity) ==
    Max(wrapping_double(instance_capacity), 1)

\* mutant: every push installs a new buffer
add_instance_always_resize(m, instance) ==
    LET m1 == resize_instance_buffer(m, grown_capacity(m.instance_capacity))
        pushed == Append(m1.instances, instance)
        offset == (Len(pushed) - 1) * RecordSize
    IN  [m1 EXCEPT !.instances = pushed,
                   !.instance_buffer =
                       write_buffer(m1.instance_buffer, offset, <<instance>>)]

add_instance(m, instance) ==
    LET m1 == IF as_u32(Len(m.instances)) >= m.instance_capacity
              THEN resize_instance_buffer(m,
                       grown_capacity(m.instance_capacity))
              ELSE m
        pushed == Append(m1.instances, instance)
        offset == (Len(pushed) - 1) * RecordSize
    IN  [m1 EXCEPT !.instances = pushed,
                   !.instance_buffer =
                       write_buffer(m1.instance_buffer, offset, <<instance>>)]

\* assert!(instance_index < self.instances.len(), ...): TRUE when it passes
remove_instance_assert(m, instance_index) ==
    instance_index < Len(m.instances)

Pop(s) == SubSeq(s, 1, Len(s) - 1)

RemoveAt(s, i) == SubSeq(s, 1, i - 1) \o SubSeq(s, i + 1, Len(s))

\* mutant: order-preserving Vec::remove instead of swap-with-last
Mesh_remove_instance_shift(m, instance_index) ==
    LET shifted == RemoveAt(m.instances, instance_index + 1)
    IN  [m EXCEPT !.instances = shifted,
                  !.instance_buffer =
                      IF shifted # <<>>
                      THEN write_buffer(m.instance_buffer, 0, shifted)
                      ELSE m.instance_buffer]

Mesh_remove_instance(m, instance_index) ==
    LET last_index == Len(m.instances) - 1
    IN  IF instance_index = last_index
        THEN [m EXCEPT !.instances = Pop(m.instances)]
        ELSE LET last_instance == m.instances[last_index + 1]
                 moved == [m.instances EXCEPT ![instance_index + 1] = last_instance]
                 offset == instance_index * RecordSize
             IN  [m EXCEPT !.instances = Pop(moved),
                           !.instance_buffer =
                               write_buffer(m.instance_buffer, offset,
                                            <<last_instance>>)]

RECURSIVE FilterIdx(_, _, _)
\* instances.iter().enumerate().filter(|(i, _)| !indices.contains(i))
FilterIdx(instances, indices, i) ==
    IF i > Len(instances) THEN <<>>
    ELSE IF \E j \in 1..Len(indices) : indices[j] = i - 1
         THEN FilterIdx(instances, indices, i + 1)
         ELSE <<instances[i]>> \o FilterIdx(instances, indices, i + 1)

RECURSIVE RemoveEach(_, _)
RemoveEach(instances, indices) ==
    IF indices = <<>> THEN instances
    ELSE RemoveEach(IF Head(indices) < Len(instances)
                    THEN RemoveAt(instances, Head(indices) + 1)
                    ELSE instances,
                    Tail(indices))

\* mutant: the indices are removed one after the other, each against the
\* array as the previous removals left it
remove_instances_batch_one_by_one(m, indices) ==
    LET new_instances == RemoveEach(m.instances, indices)
    IN  [m EXCEPT !.instances = new_instances,
                  !.instance_buffer =
                      IF new_instances # <<>>
                      THEN write_buffer(m.instance_buffer, 0, new_instances)
                      ELSE m.instance_buffer]

\* mutant: an instance is dropped when the index after its own is listed
remove_instances_batch_off_by_one(m, indices) ==
    LET new_instances ==
            FilterIdx(m.instances,
                      [j \in DOMAIN indices |-> indices[j] - 1], 1)
    IN  [m EXCEPT !.instances = new_instances,
                  !.instance_buffer =
                      IF new_instances # <<>>
                      THEN write_buffer(m.instance_buffer, 0, new_instances)
                      ELSE m.instance_buffer]

remove_instances_batch(m, indices) ==
    LET new_instances == FilterIdx(m.instances, indices, 1)
    IN  [m EXCEPT !.instances = new_instances,
                  !.instance_buffer =
                      IF new_instances # <<>>
                      THEN write_buffer(m.instance_buffer, 0, new_instances)
                      ELSE m.instance_buffer]

\* mutant: the buffer write is issued whatever the index
update_instance_unchecked(m, instance_index, new_instance) ==
    [m EXCEPT !.instances =
                  IF instance_index < Len(m.instances)
                  THEN [m.instances EXCEPT ![instance_index + 1] =
                                               new_instance]
                  ELSE m.instances,
              !.instance_buffer =
                  write_buffer(m.instance_buffer,
                               instance_index * RecordSize,
                               <<new_instance>>)]

update_instance(m, instance_index, new_instance) ==
    IF instance_index < Len(m.instances)
    THEN [m EXCEPT !.instances[instance_index + 1] = new_instance,
                   !.instance_buffer =
                       write_buffer(m.instance_buffer,
                                    instance_index * RecordSize,
                                    <<new_instance>>)]
    ELSE m

\* mutant: the write is issued before the storage is grown
update_all_instances_write_first(m, instances) ==
    LET new_count == Len(instances)
        written == IF instances # <<>>
                   THEN [m EXCEPT !.instance_buffer =
                            write_buffer(m.instance_buffer, 0, instances)]
                   ELSE m
        m1 == IF new_count > m.instance_capacity
              THEN resize_instance_buffer(written, new_count)
              ELSE written
    IN  [m1 EXCEPT !.instances = instances]

\* mutant: the list is written into the buffer the mesh has
update_all_instances_no_resize(m, instances) ==
    [m EXCEPT !.instances = instances,
              !.instance_buffer =
                  IF instances # <<>>
                  THEN write_buffer(m.instance_buffer, 0, instances)
                  ELSE m.instance_buffer]

update_all_instances(m, instances) ==
    LET new_count == as_u32(Len(instances))
        m1 == IF new_count > m.instance_capacity
              THEN resize_instance_buffer(m, new_count)
              ELSE m
    IN  [m1 EXCEPT !.instances = instances,
                   !.instance_buffer =
                       IF instances # <<>>
                       THEN write_buffer(m1.instance_buffer, 0, instances)
                       ELSE m1.instance_buffer]

\* the last operation: its name, mesh key and index arguments, the live
\* length n it found, and in set its remaining argument: for a batch removal
\* the set of the elements of its index list (shape telling whether the
\* list repeats an index), for an update the record or the list given
Op(name, mesh_id, index, n, shape, set) ==
    [name |-> name, mesh_id |-> mesh_id, index |-> index, n |-> n,
     shape |-> shape, set |-> set]

NoOp == Op("none", 0, 0, 0, {}, {})

MeshRecords == {InstanceRaw(p, 0) : p \in Positions}

(***************************************************************************)
(* Scene (scene.rs): mesh registries, physics sets, bidirectional map      *)
(***************************************************************************)
BallName == "ball"
\* the names of the level's geometry meshes; none of them is the name of
\* the built-in ball mesh
GltfNames == {"wall"}

\* hash_string_to_u64: a fixed table, distinct names having distinct keys
hash_string_to_u64(name) ==
    IF name = BallName THEN 1 ELSE IF name = "wall" THEN 2 ELSE 3

\* ((mesh_id as u128) << 64) | (instance_index as u128)
PackId(mesh_id, instance_index) == mesh_id * IdShift + instance_index

\* (user_data >> 64) as u64  and  user_data as usize
IdMesh(id) == id \div IdShift
IdIndex(id) == id % IdShift

\* ghost: the instance occurrence i of a glTF mesh
StaticUid(mesh_id, i) == mesh_id * 10 + i

Without(f, k) == [x \in DOMAIN f \ {k} |-> f[x]]

\* BiHashMap::insert: an entry with the same left or the same right goes
bimap_insert(bm, left, right) ==
    {p \in bm : p[1] # left /\ p[2] # right} \cup {<<left, right>>}

bimap_contains_left(bm, left) == \E p \in bm : p[1] = left

bimap_get_by_left(bm, left) == (CHOOSE p \in bm : p[1] = left)[2]

\* BiHashMap::remove_by_left
bimap_remove_by_left(bm, left) == {p \in bm : p[1] # left}

\* Scene::new
NewScene ==
    [color_meshes |-> <<>>,
     texture_meshes |-> <<>>,
     camera |-> [position |-> <<0, 1, 2>>, forward |-> <<0, 0, -1>>],
     bodies |-> <<>>,
     colliders |-> <<>>,
     objects |-> {},
     next_body |-> 1,
     next_collider |-> 1,
     next_uid |-> 1,
     loaded |-> FALSE,
     panicked |-> FALSE]

\* RigidBodySet::insert of a body built at a translation; made_for is a
\* ghost: the uid of the instance the body is created for
bodies_insert(S, user_data, body_type, position, made_for) ==
    [S EXCEPT !.bodies = (S.next_body :>
                            [user_data |-> user_data, body_type |-> body_type,
                             position |-> position,
                             made_for |-> made_for]) @@ S.bodies,
              !.next_body = S.next_body + 1]

\* ColliderSet::insert_with_parent
colliders_insert_with_parent(S, parent) ==
    [S EXCEPT !.colliders = (S.next_collider :> [parent |-> parent])
                                @@ S.colliders,
              !.next_collider = S.next_collider + 1]

\* ColliderSet::remove
colliders_remove(S, collider) ==
    [S EXCEPT !.colliders = Without(S.colliders, collider)]

\* RigidBodySet::remove with remove_attached_colliders = true
bodies_remove(S, rigid_body) ==
    [S EXCEPT !.bodies = Without(S.bodies, rigid_body),
              !.colliders = [c \in {x \in DOMAIN S.colliders :
                                      S.colliders[x].parent # rigid_body}
                             |-> S.colliders[c]]]

\* Physics::create_ball
create_ball(S, id, position, made_for) ==
    LET S1 == bodies_insert(S, id, "dynamic", position, made_for)
    IN  colliders_insert_with_parent(S1, S.next_body)

\* Scene::init_ball
init_ball(S) ==
    [S EXCEPT !.color_meshes =
        (hash_string_to_u64(BallName) :> add_mesh(<<ZeroRecord>>))
            @@ S.color_meshes]

\* the instance list add_node aggregates for a mesh name
NodeInstances(entry) ==
    [i \in 1..Len(entry.positions) |->
        InstanceRaw(entry.positions[i],
                    StaticUid(hash_string_to_u64(entry.name), i - 1))]

RECURSIVE PopulateStatic_break(_, _, _, _)
\* mutant: a collider that does not build ends the loop over the instances
PopulateStatic_break(S, entry, instances_list, instance_index) ==
    IF instance_index >= Len(instances_list) THEN S
    ELSE IF ~entry.collider_ok[instance_index + 1]
    THEN S
    ELSE LET S1 == bodies_insert(S, 0, "fixed",
                                 instances_list[instance_index + 1].model,
                                 instances_list[instance_index + 1].uid)
             S2 == colliders_insert_with_parent(S1, S.next_body)
             mesh_id == hash_string_to_u64(entry.name)
             id == PackId(mesh_id, instance_index)
             S3 == [S2 EXCEPT !.objects =
                        bimap_insert(S2.objects, id,
                                     <<S.next_body, S.next_collider>>)]
         IN  PopulateStatic_break(S3, entry, instances_list,
                                  instance_index + 1)

RECURSIVE PopulateStatic(_, _, _, _)
\* add_gltf, "Adding physics objects": one fixed body and trimesh collider
\* per instance whose collider builds, mapped under (mesh_id << 64) | i
PopulateStatic(S, entry, instances_list, instance_index) ==
    IF instance_index >= Len(instances_list) THEN S
    ELSE IF ~entry.collider_ok[instance_index + 1]
    THEN PopulateStatic(S, entry, instances_list, instance_index + 1)
    ELSE LET S1 == bodies_insert(S, 0, "fixed",
                                 instances_list[instance_index + 1].model,
                                 instances_list[instance_index + 1].uid)
             S2 == colliders_insert_with_parent(S1, S.next_body)
             mesh_id == hash_string_to_u64(entry.name)
             id == PackId(mesh_id, instance_index)
             S3 == [S2 EXCEPT !.objects =
                        bimap_insert(S2.objects, id,
                                     <<S.next_body, S.next_collider>>)]
         IN  PopulateStatic(S3, entry, instances_list, instance_index + 1)

\* Scene::add_gltf for a document holding one geometry mesh (entry) with
\* its instance nodes; instances.get(&name).unwrap() panics when the mesh
\* has no instance node
add_gltf(S, entry) ==
    IF Len(entry.positions) = 0
    THEN [S EXCEPT !.panicked = TRUE]
    ELSE LET mesh_id == hash_string_to_u64(entry.name)
             instances_list == NodeInstances(entry)
             S1 == IF "colored" \in entry.variants
                   THEN [S EXCEPT !.color_meshes =
                            (mesh_id :> add_mesh(instances_list))
                                @@ S.color_meshes]
                   ELSE S
             S2 == IF "textured" \in entry.variants
                   THEN [S1 EXCEPT !.texture_meshes =
                            (mesh_id :> add_mesh(instances_list))
                                @@ S1.texture_meshes]
                   ELSE S1
         IN  PopulateStatic(S2, entry, instances_list, 0)

\* Scene::init_level
init_level(S, entry) ==
    [add_gltf(init_ball(S), entry) EXCEPT !.loaded = TRUE]

\* the registry remove_instance resolves a mesh key in: the colored one
\* first, then the textured one
Registry(S, mesh_id) ==
    IF mesh_id \in DOMAIN S.color_meshes THEN "color"
    ELSE IF mesh_id \in DOMAIN S.texture_meshes THEN "texture"
    ELSE "none"

Lookup(S, mesh_id) ==
    IF Registry(S, mesh_id) = "color" THEN S.color_meshes[mesh_id]
    ELSE S.texture_meshes[mesh_id]

StoreMesh(S, mesh_id, m) ==
    IF Registry(S, mesh_id) = "color"
    THEN [S EXCEPT !.color_meshes[mesh_id] = m]
    ELSE [S EXCEPT !.texture_meshes[mesh_id] = m]

\* mutant: the map entry goes but the collider and the body stay
RemoveMapped_leak(S, user_data_removed) ==
    [S EXCEPT !.objects = bimap_remove_by_left(S.objects, user_data_removed)]

\* Scene::remove_instance, lines 385-404: the physics object mapped to the
\* removed slot goes, collider first, then rigid body
RemoveMapped(S, user_data_removed) ==
    IF bimap_contains_left(S.objects, user_data_removed)
    THEN LET pair == bimap_get_by_left(S.objects, user_data_removed)
             S1 == [S EXCEPT !.objects =
                       bimap_remove_by_left(S.objects, user_data_removed)]
         IN  bodies_remove(colliders_remove(S1, pair[2]), pair[1])
    ELSE S

\* mutant: the mapping of the moved instance stays under its old slot
RekeyLast_keep_key(S, old_user_data_last, user_data_removed) == S

\* mutant: the re-keyed body keeps its old user-data tag
RekeyLast_no_tag(S, old_user_data_last, user_data_removed) ==
    IF bimap_contains_left(S.objects, old_user_data_last)
    THEN LET pair == bimap_get_by_left(S.objects, old_user_data_last)
         IN  [S EXCEPT !.objects =
                 bimap_insert(bimap_remove_by_left(S.objects,
                                                   old_user_data_last),
                              user_data_removed, pair)]
    ELSE S

\* Scene::remove_instance, lines 406-415: the former-last instance's object
\* is re-keyed to the slot it was moved into
RekeyLast(S, old_user_data_last, user_data_removed) ==
    IF bimap_contains_left(S.objects, old_user_data_last)
    THEN LET pair == bimap_get_by_left(S.objects, old_user_data_last)
             S1 == [S EXCEPT !.objects =
                       bimap_remove_by_left(S.objects, old_user_data_last)]
             S2 == IF pair[1] \in DOMAIN S1.bodies
                   THEN [S1 EXCEPT !.bodies[pair[1]].user_data =
                                       user_data_removed]
                   ELSE S1
         IN  [S2 EXCEPT !.objects =
                 bimap_insert(S2.objects, user_data_removed, pair)]
    ELSE S

\* mutant: no range check before the mesh's swap-remove
Scene_remove_instance_unchecked(S, mesh_id, instance_index) ==
    IF Registry(S, mesh_id) = "none" THEN S
    ELSE LET m == Lookup(S, mesh_id)
         IN  IF ~remove_instance_assert(m, instance_index)
             THEN [S EXCEPT !.panicked = TRUE]
             ELSE LET last_index == Len(m.instances) - 1
                      S1 == StoreMesh(S, mesh_id,
                                Mesh_remove_instance(m, instance_index))
                      S2 == RemoveMapped(S1, PackId(mesh_id, instance_index))
                  IN  IF instance_index # last_index
                      THEN RekeyLast(S2, PackId(mesh_id, last_index),
                                     PackId(mesh_id, instance_index))
                      ELSE S2

Scene_remove_instance(S, mesh_id, instance_index) ==
    IF Registry(S, mesh_id) = "none" THEN S
    ELSE LET m == Lookup(S, mesh_id)
             instance_count_before == Len(m.instances)
         IN  IF instance_index >= instance_count_before THEN S
             ELSE IF ~remove_instance_assert(m, instance_index)
             THEN [S EXCEPT !.panicked = TRUE]
             ELSE LET last_index == instance_count_before - 1
                      S1 == StoreMesh(S, mesh_id,
                                Mesh_remove_instance(m, instance_index))
                      user_data_removed == PackId(mesh_id, instance_index)
                      S2 == RemoveMapped(S1, user_data_removed)
                  IN  IF instance_index # last_index
                      THEN RekeyLast(S2, PackId(mesh_id, last_index),
                                     user_data_removed)
                      ELSE S2

\* mutant: the id is made from the length after the push, not length - 1
spawn_ball_instance_len_id(S, position, uid) ==
    LET mesh_id == hash_string_to_u64(BallName)
        m == add_instance(S.color_meshes[mesh_id], InstanceRaw(position, uid))
        id == PackId(mesh_id, Len(m.instances))
        S1 == [S EXCEPT !.color_meshes[mesh_id] = m]
        S2 == create_ball(S1, id, position, uid)
    IN  [S2 EXCEPT !.objects =
            bimap_insert(S2.objects, id, <<S1.next_body, S1.next_collider>>)]

\* mutant: the id names the slot before the one the push filled
spawn_ball_instance_previous_slot(S, position, uid) ==
    LET mesh_id == hash_string_to_u64(BallName)
        m == add_instance(S.color_meshes[mesh_id], InstanceRaw(position, uid))
        id == PackId(mesh_id, Len(m.instances) - 2)
        S1 == [S EXCEPT !.color_meshes[mesh_id] = m]
        S2 == create_ball(S1, id, position, uid)
    IN  [S2 EXCEPT !.objects =
            bimap_insert(S2.objects, id, <<S1.next_body, S1.next_collider>>)]

\* Scene::spawn_ball_instance; uid is the ghost name of the new instance
spawn_ball_instance(S, position, uid) ==
    LET mesh_id == hash_string_to_u64(BallName)
    IN  IF mesh_id \notin DOMAIN S.color_meshes
        THEN [S EXCEPT !.panicked = TRUE]
        ELSE LET m == add_instance(S.color_meshes[mesh_id],
                                   InstanceRaw(position, uid))
                 instance_id == Len(m.instances) - 1
                 id == PackId(mesh_id, instance_id)
                 S1 == [S EXCEPT !.color_meshes[mesh_id] = m]
                 S2 == create_ball(S1, id, position, uid)
             IN  [S2 EXCEPT !.objects =
                     bimap_insert(S2.objects, id,
                                  <<S1.next_body, S1.next_collider>>)]

Sub(a, b) == <<a[1] - b[1], a[2] - b[2], a[3] - b[3]>>

Dot(a, b) == a[1] * b[1] + a[2] * b[2] + a[3] * b[3]

\* to_object.dot(camera_forward) < 0.0
BehindCamera(camera, instance) ==
    Dot(Sub(instance.model, camera.position), camera.forward) < 0

RECURSIVE MarkMesh(_, _, _, _)
\* the inner loop of cull_instances_behind_camera over one mesh; the third
\* component of a mark is a ghost, the uid of the marked instance
MarkMesh(camera, mesh_id, instances, instance_index) ==
    IF instance_index >= Len(instances) THEN <<>>
    ELSE (IF BehindCamera(camera, instances[instance_index + 1])
          THEN <<(<<mesh_id, instance_index,
                    instances[instance_index + 1].uid>>)>>
          ELSE <<>>)
         \o MarkMesh(camera, mesh_id, instances, instance_index + 1)

RECURSIVE MarkMeshes(_, _, _)
MarkMeshes(camera, meshes, order) ==
    IF order = <<>> THEN <<>>
    ELSE MarkMesh(camera, Head(order), meshes[Head(order)].instances, 0)
         \o MarkMeshes(camera, meshes, Tail(order))

\* to_remove: the colored registry's meshes chained with the textured
\* registry's, each registry in the order its HashMap iterates
ToRemove(S, color_order, texture_order) ==
    MarkMeshes(S.camera, S.color_meshes, color_order)
    \o MarkMeshes(S.camera, S.texture_meshes, texture_order)

Reverse(s) == [i \in 1..Len(s) |-> s[Len(s) + 1 - i]]

RECURSIVE RemoveAll(_, _)
RemoveAll(S, removals) ==
    IF removals = <<>> THEN S
    ELSE RemoveAll(Scene_remove_instance(S, Head(removals)[1],
                                         Head(removals)[2]),
                   Tail(removals))

\* Scene::cull_instances_behind_camera
cull_instances_behind_camera(S, color_order, texture_order) ==
    RemoveAll(S, Reverse(ToRemove(S, color_order, texture_order)))

\* the orders in which a HashMap may iterate its keys
Orders(keys) ==
    {o \in [1..Cardinality(keys) -> keys] :
        \A i, j \in 1..Cardinality(keys) : i # j => o[i] # o[j]}

\* the poses the camera takes: the initial one (Camera::new), and the same
\* place turned round
Cameras ==
    {[position |-> <<0, 1, 2>>, forward |-> <<0, 0, -1>>],
     [position |-> <<0, 1, 2>>, forward |-> <<0, 0, 1>>]}

\* the translation of the i-th instance node of a glTF mesh
NodePosition(i) == IF i % 2 = 1 THEN <<0, 0, 3>> ELSE <<0, 0, 1>>

\* the glTF documents of the model: one geometry mesh, classified colored,
\* textured or (two primitives) both, with its instance nodes and, per
\* instance, whether its trimesh collider builds (all do, or all but the
\* first)
Variants == {{"colored"}, {"textured"}, {"colored", "textured"}}

EntriesNamed(names) ==
    UNION {[name : names, variants : Variants,
            positions : {[i \in 1..k |-> NodePosition(i)]},
            collider_ok : {[i \in 1..k |-> TRUE], [i \in 1..k |-> i # 1]}]
           : k \in 0..MaxStatic}

Entries == EntriesNamed(GltfNames)

(***************************************************************************)
(* Scene actions                                                           *)
(***************************************************************************)
Init ==
    /\ scene = NewScene
    /\ mesh = add_mesh(<<>>)
    /\ op = NoOp
    /\ panicked = FALSE

InitLevel ==
    \E entry \in Entries :
        /\ ~panicked /\ ~scene.loaded
        /\ LET S == init_level(scene, entry)
           IN  scene' = S /\ panicked' = S.panicked
        /\ op' = Op("init_level", 0, 0, 0, {}, {})
        /\ UNCHANGED mesh

\* where the n-th ball is fired from
BallPosition(n) == IF n % 2 = 1 THEN <<0, 0, 3>> ELSE <<0, 0, 1>>

SpawnBallInstance ==
    \E position \in {BallPosition(scene.next_uid)} :
        /\ ~panicked /\ scene.loaded
        /\ scene.next_uid <= MaxSpawn
        /\ LET S == spawn_ball_instance(scene, position, scene.next_uid)
           IN  /\ scene' = [S EXCEPT !.next_uid = scene.next_uid + 1]
               /\ panicked' = S.panicked
        /\ op' = Op("spawn_ball_instance", 0, 0, 0, {}, {})
        /\ UNCHANGED mesh

MeshKeys == {hash_string_to_u64(n) : n \in GltfNames \cup {BallName}}

LiveLength(S, mesh_id) ==
    IF Registry(S, mesh_id) = "none" THEN 0
    ELSE Len(Lookup(S, mesh_id).instances)

\* which case of remove_instance a call falls in: an out-of-range index, a
\* swap that moves a mapped last instance, or any other
RemovalCase(S, mesh_id, instance_index) ==
    LET n == LiveLength(S, mesh_id)
    IN  IF instance_index >= n THEN {"out_of_range"}
        ELSE IF instance_index < n - 1
                /\ bimap_contains_left(S.objects, PackId(mesh_id, n - 1))
        THEN {"swap_mapped_last"}
        ELSE {}

\* mutant: the physics object goes before the render-side removal
remove_instance_calls_physics_first(S, mesh_id, instance_index) ==
    IF Registry(S, mesh_id) = "none" THEN <<>>
    ELSE IF instance_index >= LiveLength(S, mesh_id) THEN <<>>
    ELSE (IF bimap_contains_left(S.objects, PackId(mesh_id, instance_index))
          THEN <<"colliders.remove", "bodies.remove">> ELSE <<>>)
         \o <<"mesh.remove_instance">>
         \o (IF instance_index # LiveLength(S, mesh_id) - 1
                /\ bimap_contains_left(
                       S.objects,
                       PackId(mesh_id, LiveLength(S, mesh_id) - 1))
             THEN <<"objects.insert">> ELSE <<>>)

\* Scene::remove_instance: the calls it makes, in order
remove_instance_calls(S, mesh_id, instance_index) ==
    IF Registry(S, mesh_id) = "none" THEN <<>>
    ELSE IF instance_index >= LiveLength(S, mesh_id) THEN <<>>
    ELSE <<"mesh.remove_instance">>
         \o (IF bimap_contains_left(S.objects, PackId(mesh_id, instance_index))
             THEN <<"colliders.remove", "bodies.remove">> ELSE <<>>)
         \o (IF instance_index # LiveLength(S, mesh_id) - 1
                /\ bimap_contains_left(
                       S.objects,
                       PackId(mesh_id, LiveLength(S, mesh_id) - 1))
             THEN <<"objects.insert">> ELSE <<>>)

RemoveInstance ==
    \E mesh_id \in MeshKeys, instance_index \in 0..(MaxSpawn + 1) :
        /\ ~panicked /\ scene.loaded
        /\ LET S == Scene_remove_instance(scene, mesh_id, instance_index)
           IN  scene' = S /\ panicked' = S.panicked
        /\ op' = Op("remove_instance", 0, 0, 0,
                    RemovalCase(scene, mesh_id, instance_index),
                    {remove_instance_calls(scene, mesh_id, instance_index)})
        /\ UNCHANGED mesh

CullInstancesBehindCamera ==
    \E color_order \in Orders(DOMAIN scene.color_meshes),
       texture_order \in Orders(DOMAIN scene.texture_meshes) :
        /\ ~panicked /\ scene.loaded
        /\ LET S == cull_instances_behind_camera(scene, color_order,
                                                  texture_order)
           IN  scene' = S /\ panicked' = S.panicked
        /\ op' = Op("cull_instances_behind_camera", 0, 0, 0, {}, {})
        /\ UNCHANGED mesh

\* CameraController::update_camera: the camera moves and turns
UpdateCamera ==
    \E camera \in Cameras :
        /\ ~panicked /\ scene.loaded
        /\ scene' = [scene EXCEPT !.camera = camera]
        /\ op' = Op("update_camera", 0, 0, 0, {}, {})
        /\ UNCHANGED <<mesh, panicked>>

Next ==
    \/ InitLevel
    \/ SpawnBallInstance
    \/ RemoveInstance
    \/ CullInstancesBehindCamera
    \/ UpdateCamera

Spec == Init /\ [][Next]_vars

(***************************************************************************)
(* The frame: the scene with the physics step and the per-frame sync       *)
(***************************************************************************)
\* where one step of the physics pipeline takes a dynamic body: gravity is
\* zero, a ball flies on towards -z until it meets the level at z = 1
integrate(position) ==
    IF position[3] > 1
    THEN <<position[1], position[2], position[3] - 2>>
    ELSE position

\* Physics::step: the pipeline is stepped substeps times; with no substep
\* no body moves
Physics_step(S, substeps) ==
    IF substeps = 0 THEN S
    ELSE [S EXCEPT !.bodies =
            [b \in DOMAIN S.bodies |->
                IF S.bodies[b].body_type = "dynamic"
                THEN [S.bodies[b] EXCEPT !.position = integrate(@)]
                ELSE S.bodies[b]]]

\* InstanceRaw { model, normal } made from body.position(); the slot keeps
\* the ghost uid of the instance it holds
PoseRecord(body, m, instance_index) ==
    InstanceRaw(body.position,
                IF instance_index < Len(m.instances)
                THEN m.instances[instance_index + 1].uid ELSE 0)

\* the body of the loop of update_objects: a tagged body's mesh is looked
\* up in the colored registry and unwrapped
SyncBody(S, body) ==
    IF body.user_data = 0 THEN S
    ELSE LET mesh_id == IdMesh(body.user_data)
             instance_index == IdIndex(body.user_data)
         IN  IF mesh_id \notin DOMAIN S.color_meshes
             THEN [S EXCEPT !.panicked = TRUE]
             ELSE [S EXCEPT !.color_meshes[mesh_id] =
                      update_instance(@, instance_index,
                                      PoseRecord(body, @, instance_index))]

RECURSIVE SyncBodies(_, _)
\* the loop of update_objects over the bodies left, in handle order
SyncBodies(S, handles) ==
    IF handles = {} \/ S.panicked THEN S
    ELSE LET b == CHOOSE x \in handles : \A y \in handles : x <= y
         IN  SyncBodies(SyncBody(S, S.bodies[b]), handles \ {b})

\* Scene::update_objects
update_objects(S) == SyncBodies(S, DOMAIN S.bodies)

PhysicsStep ==
    \E substeps \in 0..1 :
        /\ ~panicked /\ scene.loaded
        /\ scene' = Physics_step(scene, substeps)
        /\ op' = Op("step", 0, 0, substeps, {}, {})
        /\ UNCHANGED <<mesh, panicked>>

UpdateObjects ==
    /\ ~panicked /\ scene.loaded
    /\ LET S == update_objects(scene)
       IN  scene' = S /\ panicked' = S.panicked
    /\ op' = Op("update_objects", 0, 0, 0, {}, {})
    /\ UNCHANGED mesh

\* removals reach the frame through culling
NextFrame ==
    \/ InitLevel
    \/ SpawnBallInstance
    \/ CullInstancesBehindCamera
    \/ UpdateCamera
    \/ PhysicsStep
    \/ UpdateObjects

SpecFrame == Init /\ [][NextFrame]_vars

(***************************************************************************)
(* The application (game.rs): the event handlers of Game, the state held   *)
(* in the variable scene.                                                  *)
(***************************************************************************)
\* how far, in steps along each axis, the camera is followed from where it
\* starts
MaxCamera == 1

Keys == {"KeyW", "KeyS", "KeyA", "KeyD", "Space", "ShiftLeft", "Other"}

\* Game::default; stages is a ghost: the stages the last redraw ran, in
\* the order it ran them
NewGame ==
    [renderer |-> "None",
     camera |-> [position |-> <<0, 1, 2>>, forward |-> <<0, 0, -1>>],
     movement |-> <<0, 0, 0>>,
     rotation |-> 0,
     mouse_left |-> FALSE,
     redraw_requested |-> FALSE,
     exiting |-> FALSE,
     stages |-> <<>>]

\* CameraController::process_keyboard
process_keyboard(movement, key, pressed) ==
    LET value == IF pressed THEN 1 ELSE 0
    IN  CASE key = "KeyW" -> [movement EXCEPT ![3] = value]
          [] key = "KeyS" -> [movement EXCEPT ![3] = -value]
          [] key = "KeyA" -> [movement EXCEPT ![1] = -value]
          [] key = "KeyD" -> [movement EXCEPT ![1] = value]
          [] key = "Space" -> [movement EXCEPT ![2] = value]
          [] key = "ShiftLeft" -> [movement EXCEPT ![2] = -value]
          [] OTHER -> movement

\* CameraController::update_camera over one frame time: the camera moves
\* along forward and right by the movement held, climbs by movement[1], and
\* turns by the rotation held (here: about, or not at all)
update_camera(G) ==
    LET f == G.camera.forward[3]
        position == <<G.camera.position[1] - f * G.movement[1],
                      G.camera.position[2] + G.movement[2],
                      G.camera.position[3] + f * G.movement[3]>>
        forward == IF G.rotation = 0 THEN G.camera.forward
                   ELSE <<0, 0, -f>>
    IN  [G EXCEPT !.camera = [position |-> position, forward |-> forward],
                  !.rotation = 0]

\* ApplicationHandler::resumed: the renderer is made and the level loaded
Resumed ==
    /\ scene.renderer = "None" /\ ~scene.exiting
    /\ scene' = [scene EXCEPT !.renderer = "Some"]
    /\ op' = Op("resumed", 0, 0, 0, {}, {})
    /\ UNCHANGED <<mesh, panicked>>

\* WindowEvent::CloseRequested
CloseRequested ==
    /\ ~scene.exiting
    /\ scene' = [scene EXCEPT !.renderer = "None", !.exiting = TRUE]
    /\ op' = Op("close_requested", 0, 0, 0, {}, {})
    /\ UNCHANGED <<mesh, panicked>>

\* the stages Game::window_event runs on RedrawRequested
RedrawStages == <<"render", "update_camera">>

\* WindowEvent::RedrawRequested: renderer.render(), then
\* camera_controller.update_camera(&mut renderer.camera, dt)
RedrawRequested ==
    /\ ~scene.exiting /\ scene.redraw_requested
    /\ LET G == IF scene.renderer = "Some"
                THEN [update_camera(scene) EXCEPT !.stages = RedrawStages]
                ELSE [scene EXCEPT !.stages = <<>>]
       IN  /\ \A i \in 1..3 :
                 /\ G.camera.position[i] - NewGame.camera.position[i]
                       <= MaxCamera
                 /\ NewGame.camera.position[i] - G.camera.position[i]
                       <= MaxCamera
           /\ scene' = [G EXCEPT !.redraw_requested = FALSE]
    /\ op' = Op("redraw_requested", 0, 0, 0, {}, {})
    /\ UNCHANGED <<mesh, panicked>>

\* WindowEvent::KeyboardInput
KeyboardInput ==
    \E key \in Keys, pressed \in BOOLEAN :
        /\ ~scene.exiting
        /\ scene' = [scene EXCEPT !.movement =
                         process_keyboard(@, key, pressed)]
        /\ op' = Op("keyboard_input", 0, 0, 0, {}, {})
        /\ UNCHANGED <<mesh, panicked>>

\* WindowEvent::MouseInput for the left button
MouseInput ==
    \E pressed \in BOOLEAN :
        /\ ~scene.exiting
        /\ scene' = [scene EXCEPT !.mouse_left = pressed]
        /\ op' = Op("mouse_input", 0, 0, 0, {}, {})
        /\ UNCHANGED <<mesh, panicked>>

\* DeviceEvent::MouseMotion: process_mouse while the left button is held
MouseMotion ==
    \E delta \in 0..1 :
        /\ ~scene.exiting
        /\ scene' = IF scene.mouse_left
                     THEN [scene EXCEPT !.rotation = delta]
                     ELSE scene
        /\ op' = Op("mouse_motion", 0, 0, 0, {}, {})
        /\ UNCHANGED <<mesh, panicked>>

\* ApplicationHandler::about_to_wait: request_redraw
AboutToWait ==
    /\ ~scene.exiting
    /\ scene' = [scene EXCEPT !.redraw_requested = (scene.renderer = "Some")]
    /\ op' = Op("about_to_wait", 0, 0, 0, {}, {})
    /\ UNCHANGED <<mesh, panicked>>

InitGame ==
    /\ scene = NewGame
    /\ mesh = add_mesh(<<>>)
    /\ op = NoOp
    /\ panicked = FALSE

NextGame ==
    \/ Resumed
    \/ CloseRequested
    \/ RedrawRequested
    \/ KeyboardInput
    \/ MouseInput
    \/ MouseMotion
    \/ AboutToWait

SpecGame == InitGame /\ [][NextGame]_vars

(***************************************************************************)
(* Ingestion of a document with several geometry meshes                    *)
(***************************************************************************)
DocumentNames == {"wall", "floor"}

\* the documents: one or two geometry meshes of different names, in the
\* order the HashMaps of add_gltf iterate them
Documents ==
    {<<entry>> : entry \in EntriesNamed(DocumentNames)}
        \cup {d \in {<<first, second>> :
                         first \in EntriesNamed(DocumentNames),
                         second \in EntriesNamed(DocumentNames)} :
                d[1].name # d[2].name}

RECURSIVE add_gltf_each(_, _)
add_gltf_each(S, document) ==
    IF document = <<>> THEN S
    ELSE add_gltf_each(add_gltf(S, Head(document)), Tail(document))

\* Scene::add_gltf for a document: "Processing meshes" unwraps the instance
\* list of every mesh before "Adding physics objects" starts, so a mesh
\* without instance nodes ends the ingestion before any body is built
add_gltf_document(S, document) ==
    IF \E i \in DOMAIN document : Len(document[i].positions) = 0
    THEN [S EXCEPT !.panicked = TRUE]
    ELSE add_gltf_each(S, document)

\* Scene::init_level
init_level_document(S, document) ==
    [add_gltf_document(init_ball(S), document) EXCEPT !.loaded = TRUE]

IngestDocument ==
    \E document \in Documents :
        /\ ~panicked /\ ~scene.loaded
        /\ LET S == init_level_document(scene, document)
           IN  scene' = S /\ panicked' = S.panicked
        /\ op' = Op("init_level", 0, 0, Len(document), {}, {})
        /\ UNCHANGED mesh

NextIngest == IngestDocument

SpecIngest == Init /\ [][NextIngest]_vars

(***************************************************************************)
(* The triangle lists of the static colliders                              *)
(***************************************************************************)
MaxIndices == 6
MaxInstances == 2

IndexValues == 0..2

\* the signs the determinant of an instance transform takes
Determinants == {-1, 0, 1}

\* mutant: the first two elements of the triangle change places
chunk_swap_0_1(chunk) == <<chunk[2], chunk[1], chunk[3]>>

\* chunk.swap(1, 2)
chunk_swap(chunk) == <<chunk[1], chunk[3], chunk[2]>>

RECURSIVE chunks_exact_mut_swap(_)
\* for chunk in final_indices.chunks_exact_mut(3) { chunk.swap(1, 2) }:
\* the remainder shorter than 3 is left as it is
chunks_exact_mut_swap(final_indices) ==
    IF Len(final_indices) < 3 THEN final_indices
    ELSE chunk_swap(SubSeq(final_indices, 1, 3))
             \o chunks_exact_mut_swap(SubSeq(final_indices, 4,
                                             Len(final_indices)))

RECURSIVE chunks_exact(_)
\* final_indices.chunks_exact(3).map(|tri| [tri[0], tri[1], tri[2]])
chunks_exact(final_indices) ==
    IF Len(final_indices) < 3 THEN <<>>
    ELSE <<SubSeq(final_indices, 1, 3)>>
             \o chunks_exact(SubSeq(final_indices, 4, Len(final_indices)))

\* one pass of the instance loop: final_indices is a clone of the mesh's
\* index list, flipped when the determinant is negative; the loop state
\* keeps the mesh's list and the triangle lists handed to the colliders
collider_for_instance(state, det) ==
    LET cloned == state.indices
        final_indices == IF det < 0 THEN chunks_exact_mut_swap(cloned)
                         ELSE cloned
    IN  [indices |-> state.indices,
         triangles |-> Append(state.triangles, chunks_exact(final_indices))]

RECURSIVE collider_triangles(_, _)
collider_triangles(state, determinants) ==
    IF determinants = <<>> THEN state
    ELSE collider_triangles(collider_for_instance(state, Head(determinants)),
                            Tail(determinants))

InitCollider ==
    /\ scene \in [given : SeqsUpTo(IndexValues, MaxIndices),
                  determinants : SeqsUpTo(Determinants, MaxInstances)
                                     \ {<<>>},
                  indices : {<<>>}, triangles : {<<>>}]
    /\ mesh = add_mesh(<<>>)
    /\ op = NoOp
    /\ panicked = FALSE

\* Scene::add_gltf, the loop over the instances of one collider mesh
BuildColliders ==
    /\ op.name = "none"
    /\ LET built == collider_triangles([indices |-> scene.given,
                                        triangles |-> <<>>],
                                       scene.determinants)
       IN  scene' = [scene EXCEPT !.indices = built.indices,
                                  !.triangles = built.triangles]
    /\ op' = Op("add_gltf", 0, 0, Len(scene.determinants), {}, {})
    /\ UNCHANGED <<mesh, panicked>>

NextCollider == BuildColliders

SpecCollider == InitCollider /\ [][NextCollider]_vars

(***************************************************************************)
(* Data collection: add_node and add_primitive                             *)
(***************************************************************************)
MaxPrimitives == 2

MeshNames == {"wall", "floor"}

\* what add_primitive reads of a primitive: whether read_indices and
\* read_positions give data, whether there are texture coordinates, the
\* source of the material's base-color texture, and whether the embedded
\* image decodes
PrimitiveKinds ==
    {[indices |-> TRUE, positions |-> "some", tex_coords |-> tc,
      texture |-> tx, image_ok |-> TRUE] :
        tc \in BOOLEAN, tx \in {"none", "view", "uri"}}
    \cup {[indices |-> TRUE, positions |-> "some", tex_coords |-> TRUE,
           texture |-> "view", image_ok |-> FALSE],
          [indices |-> FALSE, positions |-> "some", tex_coords |-> TRUE,
           texture |-> "view", image_ok |-> TRUE],
          [indices |-> TRUE, positions |-> "empty", tex_coords |-> TRUE,
           texture |-> "view", image_ok |-> TRUE],
          [indices |-> TRUE, positions |-> "none", tex_coords |-> TRUE,
           texture |-> "view", image_ok |-> TRUE]}

\* name.split_once('.'): the base name of an instance node
split_once(name) ==
    IF name = "wall.0" THEN <<TRUE, "wall">>
    ELSE IF name = "floor.0" THEN <<TRUE, "floor">>
    ELSE <<FALSE, name>>

\* the instance nodes every document of the model starts with
InstanceNodes ==
    <<[name |-> "wall.0", primitives |-> <<>>],
      [name |-> "floor.0", primitives |-> <<>>]>>

GeometryNodes(n) ==
    [name : MeshNames, primitives : [1..n -> PrimitiveKinds]]

RECURSIVE NodeLists(_)
\* the lists of geometry nodes holding budget primitives at most
NodeLists(budget) ==
    {<<>>} \cup UNION {{<<node>> \o rest : node \in GeometryNodes(n),
                                          rest \in NodeLists(budget - n)}
                       : n \in 1..budget}

Gltfs == {InstanceNodes \o nodes : nodes \in NodeLists(MaxPrimitives) \ {<<>>}}

\* the local maps of add_gltf and what it has uploaded; a map holds, per
\* mesh name, the primitive (node, number) whose data it keeps
NewIngestion(nodes) ==
    [nodes |-> nodes, next_node |-> 1, next_primitive |-> 1,
     instances |-> <<>>, textured_meshes |-> <<>>, colored_meshes |-> <<>>,
     collider_meshes |-> <<>>,
     color_pipeline |-> {}, texture_pipeline |-> {}, bodies |-> {},
     stage |-> "collect", panicked |-> FALSE]

map_insert(map, key, value) == (key :> value) @@ map

\* Texture::from_bytes: Err when the image bytes do not decode
Texture_from_bytes(primitive) == primitive.image_ok

\* mutant: a base-color texture makes the primitive textured whatever the
\* source of its image
takes_textured_path_any_source(primitive) ==
    primitive.tex_coords /\ primitive.texture # "none"

\* add_primitive, lines 273-301: the three nested conditions
takes_textured_path(primitive) ==
    primitive.tex_coords /\ primitive.texture = "view"

\* Scene::add_primitive
add_primitive(I, name, id, primitive) ==
    IF ~primitive.indices THEN I
    ELSE IF primitive.positions = "none" THEN [I EXCEPT !.panicked = TRUE]
    ELSE IF primitive.positions = "empty" THEN I
    ELSE IF takes_textured_path(primitive)
    THEN [I EXCEPT !.collider_meshes = map_insert(@, name, id),
                   !.textured_meshes = map_insert(@, name, id)]
    ELSE [I EXCEPT !.collider_meshes = map_insert(@, name, id),
                   !.colored_meshes = map_insert(@, name, id)]

\* Scene::add_node for an instance node
push_instance(I, base_name) ==
    [I EXCEPT !.instances =
        map_insert(@, base_name,
                   IF base_name \in DOMAIN @ THEN @[base_name] + 1 ELSE 1)]

PrimitiveAt(I, id) == I.nodes[id[1]].primitives[id[2]]

\* "Processing meshes" and "Adding physics objects": the colored meshes are
\* uploaded, then the textured ones in the order given, each after its image
\* is decoded, then the bodies are built
RECURSIVE upload_textured(_, _)
upload_textured(I, order) ==
    IF order = <<>> THEN I
    ELSE IF Head(order) \notin DOMAIN I.instances
            \/ ~Texture_from_bytes(PrimitiveAt(I, I.textured_meshes[Head(order)]))
    THEN [I EXCEPT !.panicked = TRUE]
    ELSE upload_textured([I EXCEPT !.texture_pipeline = @ \cup {Head(order)}],
                         Tail(order))

process_meshes(I, textured_order) ==
    IF \E name \in DOMAIN I.colored_meshes : name \notin DOMAIN I.instances
    THEN [I EXCEPT !.panicked = TRUE]
    ELSE LET I1 == upload_textured(
                       [I EXCEPT !.color_pipeline = DOMAIN I.colored_meshes],
                       textured_order)
         IN  IF I1.panicked THEN I1
             ELSE IF \E name \in DOMAIN I1.collider_meshes :
                        name \notin DOMAIN I1.instances
             THEN [I1 EXCEPT !.panicked = TRUE]
             ELSE [I1 EXCEPT !.bodies = DOMAIN I1.collider_meshes]

InitNodes ==
    /\ scene \in {NewIngestion(nodes) : nodes \in Gltfs}
    /\ mesh = add_mesh(<<>>)
    /\ op = NoOp
    /\ panicked = FALSE

\* add_node on a node named base.suffix
AddInstanceNode ==
    /\ ~panicked /\ scene.stage = "collect"
    /\ scene.next_node <= Len(scene.nodes)
    /\ split_once(scene.nodes[scene.next_node].name)[1]
    /\ scene' = [push_instance(scene,
                     split_once(scene.nodes[scene.next_node].name)[2])
                    EXCEPT !.next_node = @ + 1]
    /\ op' = Op("add_node", 0, scene.next_node, 0, {}, {})
    /\ UNCHANGED <<mesh, panicked>>

\* one add_primitive call of add_node's loop over the primitives of a mesh
AddPrimitive ==
    /\ ~panicked /\ scene.stage = "collect"
    /\ scene.next_node <= Len(scene.nodes)
    /\ ~split_once(scene.nodes[scene.next_node].name)[1]
    /\ LET node == scene.nodes[scene.next_node]
           id == <<scene.next_node, scene.next_primitive>>
           I == add_primitive(scene, node.name, id,
                              node.primitives[scene.next_primitive])
           last == scene.next_primitive = Len(node.primitives)
       IN  /\ scene' = [I EXCEPT
                           !.next_node = IF last THEN @ + 1 ELSE @,
                           !.next_primitive = IF last THEN 1 ELSE @ + 1]
           /\ panicked' = I.panicked
    /\ op' = Op("add_primitive", 0, scene.next_node, scene.next_primitive,
                {}, {})
    /\ UNCHANGED mesh

\* the rest of add_gltf once every node has been visited
ProcessMeshes ==
    /\ ~panicked /\ scene.stage = "collect"
    /\ scene.next_node > Len(scene.nodes)
    /\ \E textured_order \in Orders(DOMAIN scene.textured_meshes) :
          LET I == process_meshes(scene, textured_order)
          IN  /\ scene' = [I EXCEPT !.stage = "done"]
              /\ panicked' = I.panicked
    /\ op' = Op("process_meshes", 0, 0, 0, {}, {})
    /\ UNCHANGED mesh

NextNodes == AddInstanceNode \/ AddPrimitive \/ ProcessMeshes

SpecNodes == InitNodes /\ [][NextNodes]_vars

(***************************************************************************)
(* ColorPipeline: the registry of meshes and its render pass               *)
(***************************************************************************)
PipelineKeys == {1, 2}

PipelineRecords == {InstanceRaw(<<0, 0, 1>>, 0)}

\* ColorPipeline::new
NewPipeline == [meshes |-> <<>>]

\* mutant: a mesh without instances is not stored
ColorPipeline_add_mesh_skip_empty(P, id, instances) ==
    IF instances = <<>> THEN P
    ELSE [P EXCEPT !.meshes = (id :> add_mesh(instances)) @@ P.meshes]

\* ColorPipeline::add_mesh: HashMap::insert of a mesh built from the
\* instances given
ColorPipeline_add_mesh(P, id, instances) ==
    [P EXCEPT !.meshes = (id :> add_mesh(instances)) @@ P.meshes]

\* mutant: the draw covers the whole buffer
draw_indexed_capacity(m) ==
    [first |-> 0, count |-> m.instance_capacity,
     records |-> SubSeq(m.instance_buffer.data, 1, m.instance_capacity)]

\* render_pass.draw_indexed(0..index_count, 0, 0..instances.len() as u32)
\* with vertex buffer 1 bound to instance_buffer.slice(..): the instance
\* range and the records the draw reads
draw_indexed(m) ==
    [first |-> 0, count |-> as_u32(Len(m.instances)),
     records |-> SubSeq(m.instance_buffer.data, 1, as_u32(Len(m.instances)))]

\* ColorPipeline::begin_render_pass: the draws issued for each mesh
begin_render_pass(P) ==
    [id \in DOMAIN P.meshes |-> <<draw_indexed(P.meshes[id])>>]

\* the ascending lists of slots of a mesh of n instances
Batches(n) ==
    {indices \in SeqsUpTo(0..(n - 1), MaxBatch) :
        \A i \in 1..(Len(indices) - 1) : indices[i] < indices[i + 1]}

InitPipeline ==
    /\ scene = NewPipeline
    /\ mesh = add_mesh(<<>>)
    /\ op = NoOp
    /\ panicked = FALSE

PipelineAddMesh ==
    \E id \in PipelineKeys, xs \in SeqsUpTo(PipelineRecords, MaxList) :
        /\ scene' = ColorPipeline_add_mesh(scene, id, xs)
        /\ op' = Op("add_mesh", id, 0, Len(xs), {}, {xs})
        /\ UNCHANGED <<mesh, panicked>>

PipelineAddInstance ==
    \E id \in DOMAIN scene.meshes, r \in PipelineRecords :
        /\ Len(scene.meshes[id].instances) < MaxLen
        /\ scene' = [scene EXCEPT !.meshes[id] = add_instance(@, r)]
        /\ op' = Op("add_instance", id, scene.meshes[id].instance_capacity,
                    Len(scene.meshes[id].instances), {}, {r})
        /\ UNCHANGED <<mesh, panicked>>

PipelineRemoveInstance ==
    \E id \in DOMAIN scene.meshes :
        \E k \in 0..(Len(scene.meshes[id].instances) - 1) :
            /\ scene' = [scene EXCEPT
                            !.meshes[id] = Mesh_remove_instance(@, k)]
            /\ op' = Op("remove_instance", id, k,
                        Len(scene.meshes[id].instances), {}, {})
            /\ UNCHANGED <<mesh, panicked>>

PipelineRemoveInstancesBatch ==
    \E id \in DOMAIN scene.meshes :
        \E indices \in Batches(Len(scene.meshes[id].instances)) :
            /\ scene' = [scene EXCEPT
                            !.meshes[id] = remove_instances_batch(@, indices)]
            /\ op' = Op("remove_instances_batch", id, 0,
                        Len(scene.meshes[id].instances), {}, {})
            /\ UNCHANGED <<mesh, panicked>>

PipelineUpdateAllInstances ==
    \E id \in DOMAIN scene.meshes :
        \E xs \in SeqsUpTo(PipelineRecords, MaxList) :
            /\ scene' = [scene EXCEPT
                            !.meshes[id] = update_all_instances(@, xs)]
            /\ op' = Op("update_all_instances", id, 0,
                        Len(scene.meshes[id].instances), {}, {})
            /\ UNCHANGED <<mesh, panicked>>

\* the draws of the frame are kept in the label
Render ==
    /\ op' = Op("render", 0, 0, 0, {}, {begin_render_pass(scene)})
    /\ UNCHANGED <<scene, mesh, panicked>>

NextPipeline ==
    \/ PipelineAddMesh
    \/ PipelineAddInstance
    \/ PipelineRemoveInstance
    \/ PipelineRemoveInstancesBatch
    \/ PipelineUpdateAllInstances
    \/ Render

SpecPipeline == InitPipeline /\ [][NextPipeline]_vars

(***************************************************************************)
(* TexturePipeline (renderer/pipeline/texture.rs): a Vec of TextureMesh,    *)
(* each with an instance buffer made once by add_mesh and a count of the   *)
(* instances to draw.  The state is held in `scene`.                       *)
(***************************************************************************)
MaxTextureMeshes == 1

\* TexturePipeline::new
NewTexturePipeline == [meshes |-> <<>>]

\* TexturePipeline::add_mesh: the instance buffer is created from the
\* instances given and the mesh is pushed
TexturePipeline_add_mesh(P, instances) ==
    [P EXCEPT !.meshes =
        Append(@, [instance_buffer |-> create_buffer_init(0, instances),
                   instances_len |-> as_u32(Len(instances))])]

\* TexturePipeline::mesh_mut: Vec::get_mut
mesh_mut(P, mesh_index) == mesh_index < Len(P.meshes)

\* TexturePipeline::remove_mesh: Vec::remove, for an index in range
remove_mesh(P, index) == [P EXCEPT !.meshes = RemoveAt(@, index + 1)]

\* TextureMesh::update_instance
TextureMesh_update_instance(m, instance_index, new_instance) ==
    LET offset == instance_index * RecordSize
    IN  [m EXCEPT !.instance_buffer =
            write_buffer(m.instance_buffer, offset, <<new_instance>>)]

\* TextureMesh::update_all_instances
TextureMesh_update_all_instances(m, instances) ==
    [m EXCEPT !.instances_len = as_u32(Len(instances)),
              !.instance_buffer = write_buffer(m.instance_buffer, 0, instances)]

InitTexture ==
    /\ scene = NewTexturePipeline
    /\ mesh = add_mesh(<<>>)
    /\ op = NoOp
    /\ panicked = FALSE

TextureAddMesh ==
    \E xs \in SeqsUpTo(MeshRecords, MaxList) :
        /\ ~panicked
        /\ Len(scene.meshes) < MaxTextureMeshes
        /\ scene' = TexturePipeline_add_mesh(scene, xs)
        /\ op' = Op("add_mesh", Len(scene.meshes), 0, Len(xs), {}, {})
        /\ UNCHANGED <<mesh, panicked>>

TextureRemoveMesh ==
    \E index \in 0..MaxTextureMeshes :
        /\ ~panicked
        /\ op' = Op("remove_mesh", index, 0, Len(scene.meshes), {}, {})
        /\ IF index < Len(scene.meshes)
           THEN scene' = remove_mesh(scene, index) /\ UNCHANGED panicked
           ELSE panicked' = TRUE /\ UNCHANGED scene
        /\ UNCHANGED mesh

TextureUpdateInstance ==
    \E mesh_index \in 0..MaxTextureMeshes, instance_index \in 0..MaxList,
       r \in MeshRecords :
        /\ ~panicked
        /\ op' = Op("update_instance", mesh_index, instance_index, 0, {}, {})
        /\ scene' = IF mesh_mut(scene, mesh_index)
                    THEN [scene EXCEPT !.meshes[mesh_index + 1] =
                             TextureMesh_update_instance(@, instance_index, r)]
                    ELSE scene
        /\ UNCHANGED <<mesh, panicked>>

TextureUpdateAllInstances ==
    \E mesh_index \in 0..MaxTextureMeshes,
       xs \in SeqsUpTo(MeshRecords, MaxList) :
        /\ ~panicked
        /\ op' = Op("update_all_instances", mesh_index, 0, Len(xs), {}, {})
        /\ scene' = IF mesh_mut(scene, mesh_index)
                    THEN [scene EXCEPT !.meshes[mesh_index + 1] =
                             TextureMesh_update_all_instances(@, xs)]
                    ELSE scene
        /\ UNCHANGED <<mesh, panicked>>

NextTexture ==
    \/ TextureAddMesh
    \/ TextureRemoveMesh
    \/ TextureUpdateInstance
    \/ TextureUpdateAllInstances

SpecTexture == InitTexture /\ [][NextTexture]_vars

(***************************************************************************)
(* The time steps of Physics::step (physics.rs).  Times are f32 values,    *)
(* written as integer multiples of 2^-33 s: a value of 2^23 units or more  *)
(* has a 24-bit significand, so the values of [2^23, 2^24) are one unit    *)
(* apart, those of [2^24, 2^25) two units apart, and so on.  The state is  *)
(* held in `scene`: the dt kept in integration_parameters and the dt of    *)
(* each pipeline step of the last call.                                    *)
(***************************************************************************)
MaxSubsteps == 3

\* 2^23: the least value of the binade whose neighbours are one unit apart
Significand == 8388608

\* 1/60 s, the dt of IntegrationParameters::tgs_soft()
DefaultDt == 143165584

\* 1/64 s
Frame == 134217728

Binades == {Significand, 2 * Significand, 4 * Significand, 8 * Significand,
            16 * Significand, 32 * Significand, 64 * Significand}

\* the distance between neighbouring f32 values around num / den
f32_ulp(num, den) ==
    LET q0 == num \div den
        B == CHOOSE b \in Binades : b <= q0 /\ q0 \div 2 < b
    IN  B \div Significand

\* the f32 value nearest to num / den, ties to the even significand
f32_round(num, den) ==
    LET u == f32_ulp(num, den)
        q == num \div (den * u)
        r == num - q * den * u
    IN  IF 2 * r > den * u \/ (2 * r = den * u /\ q % 2 = 1)
        THEN (q + 1) * u
        ELSE q * u

\* delta_secs * time_scale, the time scale given as a ratio
f32_mul(a, ratio) == f32_round(a * ratio[1], ratio[2])

\* f32::min
f32_min(a, b) == IF a < b THEN a ELSE b

\* dt /= substeps as f32; division by zero gives infinity, written -1
f32_div(a, n) == IF n = 0 THEN -1 ELSE f32_round(a, n)

\* mutant: the loop runs over 0..=substeps
Physics_step_times_inclusive(P, delta_secs, max_dt, time_scale, substeps) ==
    LET dt == f32_min(f32_mul(delta_secs, time_scale), max_dt)
        substep_dt == f32_div(dt, substeps)
    IN  [dt |-> dt, runs |-> [i \in 1..(substeps + 1) |-> substep_dt]]

\* Physics::step: the dt stored and the dt of each pipeline.step, in order
Physics_step_times(P, delta_secs, max_dt, time_scale, substeps) ==
    LET dt == f32_min(f32_mul(delta_secs, time_scale), max_dt)
        substep_dt == f32_div(dt, substeps)
    IN  [dt |-> dt, runs |-> [i \in 1..substeps |-> substep_dt]]

\* frame times between 1/64 s and 1/32 s, where neighbouring f32 values are
\* 16 units apart
DeltaSamples == {Frame, Frame + 16, Frame + 48, 3 * (Frame \div 2),
                 2 * Frame - 16, 2 * Frame}

MaxDtSamples == {Frame, Frame + 16, 3 * (Frame \div 2), 2 * Frame}

\* 0.5, 1.0 and 3.0
TimeScaleSamples == {<<1, 2>>, <<1, 1>>, <<3, 1>>}

InitStep ==
    /\ scene = [dt |-> DefaultDt, runs |-> <<>>]
    /\ mesh = add_mesh(<<>>)
    /\ op = NoOp
    /\ panicked = FALSE

StepCall ==
    \E delta_secs \in DeltaSamples, max_dt \in MaxDtSamples,
       time_scale \in TimeScaleSamples, substeps \in 0..MaxSubsteps :
        /\ scene' = Physics_step_times(scene, delta_secs, max_dt, time_scale,
                                       substeps)
        /\ op' = Op("step", 0, max_dt, substeps, {},
                    {f32_mul(delta_secs, time_scale)})
        /\ UNCHANGED <<mesh, panicked>>

NextStep == StepCall

SpecStep == InitStep /\ [][NextStep]_vars

(***************************************************************************)
(* Properties of the scene                                                 *)
(***************************************************************************)
Registries(S) == <<S.color_meshes, S.texture_meshes>>

\* C2: every physics object in Scene.objects is keyed by (mesh key, s) where
\* s is the current slot, in every mesh stored under that key, of the very
\* instance the object was created for; no removal leaves an object
\* addressed by a slot that now holds a different instance.
C2_AssociationPreserved ==
    \A p \in scene.objects :
        LET mesh_id == IdMesh(p[1])
            s == IdIndex(p[1])
        IN  /\ Registry(scene, mesh_id) # "none"
            /\ p[2][1] \in DOMAIN scene.bodies
            /\ \A r \in 1..2 :
                  mesh_id \in DOMAIN Registries(scene)[r]
                  => LET instances == Registries(scene)[r][mesh_id].instances
                     IN  /\ s < Len(instances)
                         /\ instances[s + 1].uid
                                = scene.bodies[p[2][1]].made_for

Rekeyed(S, T, mesh_id, k) ==
    LET n == LiveLength(S, mesh_id)
        moved == bimap_get_by_left(S.objects, PackId(mesh_id, n - 1))
    IN  /\ bimap_contains_left(T.objects, PackId(mesh_id, k))
        /\ bimap_get_by_left(T.objects, PackId(mesh_id, k)) = moved
        /\ moved[1] \in DOMAIN T.bodies
        /\ T.bodies[moved[1]].user_data = PackId(mesh_id, k)
        /\ ~bimap_contains_left(T.objects, PackId(mesh_id, n - 1))

\* C3: Scene.remove_instance(mesh, k) with n live instances and k < n - 1
\* leaves the physics object that was mapped at (mesh, n - 1) mapped at
\* (mesh, k), sets that body's user-data tag to the id of (mesh, k), and
\* leaves (mesh, n - 1) resolving to no physics object.
C3_SwapRemoveReindexing ==
    [][\A mesh_id \in MeshKeys, k \in 0..(MaxSpawn + 1) :
          (/\ op'.name = "remove_instance"
           /\ scene' = Scene_remove_instance(scene, mesh_id, k)
           /\ k < LiveLength(scene, mesh_id) - 1
           /\ bimap_contains_left(scene.objects,
                    PackId(mesh_id, LiveLength(scene, mesh_id) - 1)))
          => Rekeyed(scene, scene', mesh_id, k)]_vars

\* a removal has just moved a mapped last instance into a lower slot, which
\* now holds a tagged body
C3_Witness ==
    /\ op.name = "remove_instance"
    /\ op.shape = {"swap_mapped_last"}
    /\ \E p \in scene.objects :
          /\ p[2][1] \in DOMAIN scene.bodies
          /\ scene.bodies[p[2][1]].user_data = p[1]
          /\ IdIndex(p[1]) + 1 < scene.next_body - 1

\* what a cull pass is to leave: in every mesh of either registry exactly
\* the pre-cull instances that are not behind the camera, and no physics
\* object of an instance that was behind it
Culled(S, T) ==
    /\ \A r \in 1..2 :
          \A mesh_id \in DOMAIN Registries(S)[r] :
             LET before == Registries(S)[r][mesh_id].instances
                 after == Registries(T)[r][mesh_id].instances
                 kept == {x \in Range(before) : ~BehindCamera(S.camera, x)}
             IN  /\ Range(after) = kept
                 /\ Len(after) = Cardinality(kept)
    /\ \A r \in 1..2 :
          \A mesh_id \in DOMAIN Registries(S)[r] :
             \A x \in Range(Registries(S)[r][mesh_id].instances) :
                BehindCamera(S.camera, x)
                => \A b \in DOMAIN T.bodies : T.bodies[b].made_for # x.uid

\* C4: after cull_instances_behind_camera, for every mesh in either
\* registry the live instances are exactly the pre-cull instances whose
\* (position - camera_position) . camera_forward is >= 0; every instance
\* behind the camera is removed together with its physics object and no
\* other instance is removed.
C4_CullingOutcome ==
    [][op'.name = "cull_instances_behind_camera"
        => Culled(scene, scene')]_vars

\* the removals a cull pass issues for any one mesh key come in strictly
\* descending slot order
StrictlyDescendingPerMesh(removals) ==
    \A i, j \in 1..Len(removals) :
        (i < j /\ removals[i][1] = removals[j][1])
        => removals[i][2] > removals[j][2]

RECURSIVE MarksStillNamed(_, _)
\* every removal finds, at the time it is executed, the marked instance at
\* the marked index
MarksStillNamed(S, removals) ==
    IF removals = <<>> THEN TRUE
    ELSE LET r == Head(removals)
         IN  /\ Registry(S, r[1]) # "none"
             /\ r[2] < Len(Lookup(S, r[1]).instances)
             /\ Lookup(S, r[1]).instances[r[2] + 1].uid = r[3]
             /\ MarksStillNamed(Scene_remove_instance(S, r[1], r[2]),
                                Tail(removals))

\* C5: within one cull pass, the removals issued for any single mesh are
\* applied in strictly descending slot index order, whatever the iteration
\* order of the registries, so that every index marked for removal still
\* names the marked instance when its removal is executed.
C5_CullingOrder ==
    [][\A color_order \in Orders(DOMAIN scene.color_meshes),
         texture_order \in Orders(DOMAIN scene.texture_meshes) :
          op'.name = "cull_instances_behind_camera"
          => LET removals == Reverse(ToRemove(scene, color_order,
                                              texture_order))
             IN  /\ StrictlyDescendingPerMesh(removals)
                 /\ MarksStillNamed(scene, removals)]_vars

\* C6: Scene.remove_instance with a slot index >= the mesh's live length is
\* a no-op: instance arrays, capacities, object map, user-data tags and the
\* physics sets are unchanged, and no assertion or panic is raised.
C6_OutOfRangeNoOp ==
    [][(op'.name = "remove_instance" /\ "out_of_range" \in op'.shape)
        => (scene' = scene /\ ~panicked')]_vars

\* an out-of-range removal was asked of a scene with live instances and
\* mapped physics objects
C6_Witness ==
    /\ op.name = "remove_instance"
    /\ op.shape = {"out_of_range"}
    /\ ~panicked
    /\ Cardinality(scene.objects) >= 2
    /\ \A mesh_id \in MeshKeys : LiveLength(scene, mesh_id) >= 1

ListShape(indices) ==
    IF \E j, l \in DOMAIN indices : l # j /\ indices[l] = indices[j]
    THEN {"dup"} ELSE {}

MeshAddInstance ==
    \E r \in MeshRecords :
        /\ ~panicked
        /\ Len(mesh.instances) < MaxLen
        /\ mesh' = add_instance(mesh, r)
        /\ op' = Op("add_instance", 0, mesh.instance_capacity,
                    Len(mesh.instances), {}, {})
        /\ UNCHANGED <<scene, panicked>>

MeshRemoveInstance ==
    \E k \in 0..MaxLen :
        /\ ~panicked
        /\ op' = Op("remove_instance", 0, k, Len(mesh.instances), {}, {})
        /\ IF remove_instance_assert(mesh, k)
           THEN mesh' = Mesh_remove_instance(mesh, k) /\ UNCHANGED panicked
           ELSE panicked' = TRUE /\ UNCHANGED mesh
        /\ UNCHANGED scene

MeshRemoveInstancesBatch ==
    \E indices \in SeqsUpTo(0..MaxLen, MaxBatch) :
        /\ ~panicked
        /\ mesh' = remove_instances_batch(mesh, indices)
        /\ op' = Op("remove_instances_batch", 0, 0, Len(mesh.instances),
                    ListShape(indices), Range(indices))
        /\ UNCHANGED <<scene, panicked>>

MeshUpdateInstance ==
    \E i \in 0..MaxLen, r \in MeshRecords :
        /\ ~panicked
        /\ mesh' = update_instance(mesh, i, r)
        /\ op' = Op("update_instance", 0, i, Len(mesh.instances), {}, {r})
        /\ UNCHANGED <<scene, panicked>>

MeshUpdateAllInstances ==
    \E xs \in SeqsUpTo(MeshRecords, MaxList) :
        /\ ~panicked
        /\ mesh' = update_all_instances(mesh, xs)
        /\ op' = Op("update_all_instances", 0, 0, Len(mesh.instances), {},
                    {xs})
        /\ UNCHANGED <<scene, panicked>>

InitMesh ==
    /\ \E xs \in SeqsUpTo(MeshRecords, MaxList) : mesh = add_mesh(xs)
    /\ scene = NewScene
    /\ op = NoOp
    /\ panicked = FALSE

NextMesh ==
    \/ MeshAddInstance
    \/ MeshRemoveInstance
    \/ MeshRemoveInstancesBatch
    \/ MeshUpdateInstance
    \/ MeshUpdateAllInstances

SpecMesh == InitMesh /\ [][NextMesh]_vars

Spawned(S, T) ==
    LET mesh_id == hash_string_to_u64(BallName)
        pre == S.color_meshes[mesh_id].instances
        post == T.color_meshes[mesh_id].instances
        n == Len(pre)
        id == PackId(mesh_id, n)
        new_bodies == DOMAIN T.bodies \ DOMAIN S.bodies
        new_colliders == DOMAIN T.colliders \ DOMAIN S.colliders
    IN  /\ Len(post) = n + 1
        /\ SubSeq(post, 1, n) = pre
        /\ \A k \in DOMAIN S.color_meshes \ {mesh_id} :
              T.color_meshes[k] = S.color_meshes[k]
        /\ DOMAIN T.color_meshes = DOMAIN S.color_meshes
        /\ T.texture_meshes = S.texture_meshes
        /\ Cardinality(new_bodies) = 1
        /\ Cardinality(new_colliders) = 1
        /\ \A b \in DOMAIN S.bodies :
              b \in DOMAIN T.bodies /\ T.bodies[b] = S.bodies[b]
        /\ \A c \in DOMAIN S.colliders :
              c \in DOMAIN T.colliders /\ T.colliders[c] = S.colliders[c]
        /\ \A b \in new_bodies, c \in new_colliders :
              /\ T.bodies[b].body_type = "dynamic"
              /\ T.bodies[b].user_data = id
              /\ T.colliders[c].parent = b
              /\ T.objects = S.objects \cup {<<id, <<b, c>>>>}
        /\ ~bimap_contains_left(S.objects, id)
        /\ ~T.panicked

CapacitySamples == {0, 1, 2, 3, 32768, 1342177, 1342178, 2684354}

\* the window below a sampled length within which lengths are followed
MaxWindow == 2

\* add_mesh: create_buffer_init of the instances given
add_mesh_counts(n, overflow_checks) ==
    [len |-> n, instance_capacity |-> n, overflow_checks |-> overflow_checks,
     panicked |-> FALSE]

\* resize_instance_buffer: a buffer larger than the device limit is a
\* validation error, which the default error handler turns into a panic
resize_instance_buffer_counts(c, new_capacity) ==
    IF new_capacity * RecordSize > MaxBufferSize
    THEN [c EXCEPT !.panicked = TRUE]
    ELSE [c EXCEPT !.instance_capacity = new_capacity]

\* add_instance; with overflow checks (a debug build) a product that does
\* not fit u32 panics, without them it wraps
add_instance_counts(c) ==
    IF as_u32(c.len) >= c.instance_capacity
    THEN IF c.overflow_checks /\ doubling_overflows(c.instance_capacity)
         THEN [c EXCEPT !.panicked = TRUE]
         ELSE LET c1 == resize_instance_buffer_counts(c,
                            grown_capacity(c.instance_capacity))
              IN  IF c1.panicked THEN c1 ELSE [c1 EXCEPT !.len = c.len + 1]
    ELSE [c EXCEPT !.len = c.len + 1]

\* remove_instance
remove_instance_counts(c, instance_index) ==
    IF instance_index < c.len THEN [c EXCEPT !.len = c.len - 1]
    ELSE [c EXCEPT !.panicked = TRUE]

\* remove_instances_batch with a list naming removed distinct live indices
remove_instances_batch_counts(c, removed) ==
    [c EXCEPT !.len = c.len - removed]

\* update_all_instances with a list of n records
update_all_instances_counts(c, n) ==
    LET new_count == as_u32(n)
        c1 == IF new_count > c.instance_capacity
              THEN resize_instance_buffer_counts(c, new_count)
              ELSE c
    IN  IF c1.panicked THEN c1 ELSE [c1 EXCEPT !.len = n]

\* lengths followed: within the window below a sampled length or just
\* above it
Followed(n) ==
    \E s \in CapacitySamples : n >= s - MaxWindow /\ n <= s + MaxWindow

InitCapacity ==
    /\ \E n \in CapacitySamples, overflow_checks \in BOOLEAN :
          mesh = add_mesh_counts(n, overflow_checks)
    /\ scene = NewScene
    /\ op = NoOp
    /\ panicked = FALSE

CapAddInstance ==
    /\ ~panicked
    /\ Followed(mesh.len + 1)
    /\ mesh' = add_instance_counts(mesh)
    /\ panicked' = mesh'.panicked
    /\ op' = Op("add_instance", 0, 0, mesh.len, {}, {})
    /\ UNCHANGED scene

CapRemoveInstance ==
    \E k \in {0, mesh.len} :
        /\ ~panicked
        /\ Followed(mesh.len - 1) \/ k >= mesh.len
        /\ mesh' = remove_instance_counts(mesh, k)
        /\ panicked' = mesh'.panicked
        /\ op' = Op("remove_instance", 0, 0, mesh.len, {}, {})
        /\ UNCHANGED scene

CapRemoveInstancesBatch ==
    \E removed \in 0..MaxBatch :
        /\ ~panicked
        /\ removed <= mesh.len
        /\ Followed(mesh.len - removed)
        /\ mesh' = remove_instances_batch_counts(mesh, removed)
        /\ op' = Op("remove_instances_batch", 0, 0, mesh.len, {}, {})
        /\ UNCHANGED <<scene, panicked>>

CapUpdateAllInstances ==
    \E n \in CapacitySamples :
        /\ ~panicked
        /\ mesh' = update_all_instances_counts(mesh, n)
        /\ panicked' = mesh'.panicked
        /\ op' = Op("update_all_instances", 0, 0, mesh.len, {}, {})
        /\ UNCHANGED scene

NextCapacity ==
    \/ CapAddInstance
    \/ CapRemoveInstance
    \/ CapRemoveInstancesBatch
    \/ CapUpdateAllInstances

SpecCapacity == InitCapacity /\ [][NextCapacity]_vars

(***************************************************************************)
(* Properties of the stand-alone mesh                                      *)
(***************************************************************************)
\* the record stored in a buffer at a byte offset
ReadBuffer(buffer, offset) == buffer.data[(offset \div RecordSize) + 1]

MirrorMatchesBuffer(m) ==
    /\ ~m.instance_buffer.error
    /\ \A i \in 0..(Len(m.instances) - 1) :
          /\ (i + 1) * RecordSize <= m.instance_buffer.size
          /\ ReadBuffer(m.instance_buffer, i * RecordSize) = m.instances[i + 1]

\* C1: after any sequence of add_instance, remove_instance (in range),
\* remove_instances_batch, update_instance and update_all_instances, every
\* live mirror entry instances[i] equals the record the GPU instance buffer
\* holds at byte offset i * record_size, reallocations included.
C1_SlotInvariant == MirrorMatchesBuffer(mesh)

\* an add_instance has reallocated a buffer that held live records
C1_Witness ==
    /\ op.name = "add_instance"
    /\ op.n = 2
    /\ mesh.instance_capacity = 4
    /\ mesh.instance_buffer.id > 0
    /\ \E i \in 1..Len(mesh.instances) : mesh.instances[i] # ZeroRecord

GrownByAdd(pre, post) ==
    LET c == pre.instance_capacity
    IN  /\ post.instance_buffer.id = pre.instance_buffer.id + 1
        /\ post.instance_capacity = (IF 2 * c >= 1 THEN 2 * c ELSE 1)
        /\ post.instance_buffer.size = post.instance_capacity * RecordSize
        /\ ~post.instance_buffer.error
        /\ Len(post.instances) = c + 1
        /\ \A i \in 1..c :
              /\ post.instances[i] = pre.instances[i]
              /\ ReadBuffer(post.instance_buffer, (i - 1) * RecordSize)
                     = pre.instances[i]

\* C8: add_instance on a mesh with capacity c and c live instances
\* reallocates exactly once (one new buffer), to capacity max(2c, 1), and
\* leaves the c previously live records unchanged in the mirror and in the
\* new buffer.
C8_CapacityGrowth ==
    [][(op'.name = "add_instance"
            /\ Len(mesh.instances) = mesh.instance_capacity)
        => GrownByAdd(mesh, mesh')]_vars

C8_Witness ==
    /\ op.name = "add_instance"
    /\ op.n = 2
    /\ Len(mesh.instances) = 3
    /\ mesh.instance_capacity = 4

SwapRemoved(pre, post, k) ==
    LET n == Len(pre.instances)
    IN  /\ Len(post.instances) = n - 1
        /\ k < n - 1 =>
              /\ post.instances[k + 1] = pre.instances[n]
              /\ ReadBuffer(post.instance_buffer, k * RecordSize)
                     = pre.instances[n]
        /\ \A i \in 0..(n - 2) :
              i # k =>
                /\ post.instances[i + 1] = pre.instances[i + 1]
                /\ ReadBuffer(post.instance_buffer, i * RecordSize)
                     = ReadBuffer(pre.instance_buffer, i * RecordSize)
        /\ post.instance_capacity = pre.instance_capacity
        /\ post.instance_buffer.id = pre.instance_buffer.id
        /\ post.instance_buffer.size = pre.instance_buffer.size

\* C9: Mesh.remove_instance(k) with k < n is a swap-remove: the live length
\* becomes n - 1; if k < n - 1 slot k holds the record that was at slot
\* n - 1, in the mirror and in the GPU buffer; every other slot below n - 1
\* is unchanged; the capacity (and the buffer) is unchanged.
C9_SwapRemove ==
    [][(op'.name = "remove_instance" /\ op'.index < Len(mesh.instances))
        => (~panicked' /\ SwapRemoved(mesh, mesh', op'.index))]_vars

\* slot 0 of three records was removed and the last one moved into it
C9_Witness ==
    /\ op.name = "remove_instance"
    /\ op.index = 0
    /\ op.n = 3
    /\ Len(mesh.instances) = 2
    /\ mesh.instances[1] # mesh.instances[2]

\* the positions a batch removal keeps: those not in the set of indices
KeptPositions(n, index_set) == {i \in 0..(n - 1) : i \notin index_set}

\* the j-th smallest element (j from 1) of a finite set of naturals
NthSmallest(S, j) == CHOOSE e \in S : Cardinality({x \in S : x < e}) = j - 1

BatchRemoved(pre, post, index_set) ==
    LET kept == KeptPositions(Len(pre.instances), index_set)
    IN  /\ Len(post.instances) = Cardinality(kept)
        /\ \A j \in 1..Cardinality(kept) :
              post.instances[j] = pre.instances[NthSmallest(kept, j) + 1]
        /\ post.instance_capacity = pre.instance_capacity

\* C10: remove_instances_batch has set semantics: for any index list
\* (unsorted, with duplicates, with out-of-range values) the live array
\* becomes the records at the positions not in the set of given indices, in
\* their original order.  The result is stated through the set of the
\* list's elements alone, so two lists with the same set give the same
\* result.
C10_BatchSetSemantics ==
    [][op'.name = "remove_instances_batch"
        => BatchRemoved(mesh, mesh', op'.set)]_vars

\* a list that names index 1 twice was applied to three live records and
\* removed exactly one of them
C10_Witness ==
    /\ op.name = "remove_instances_batch"
    /\ op.n = 3
    /\ op.shape = {"dup"}
    /\ op.set = {1}
    /\ Len(mesh.instances) = 2
    /\ mesh.instances[1] # mesh.instances[2]

\* the GPU side of a mesh apart from the records stored: which buffer it
\* is, its size and whether a write to it was rejected
BufferShell(m) ==
    <<m.instance_buffer.id, m.instance_buffer.size, m.instance_buffer.error>>

Updated(pre, post, i, r) ==
    IF i < Len(pre.instances)
    THEN /\ post.instances = [pre.instances EXCEPT ![i + 1] = r]
         /\ post.instance_buffer.data
                = [pre.instance_buffer.data EXCEPT ![i + 1] = r]
         /\ BufferShell(post) = BufferShell(pre)
         /\ ~post.instance_buffer.error
         /\ post.instance_capacity = pre.instance_capacity
    ELSE post = pre

\* C11: Mesh.update_instance(i, r) with i < live length makes slot i equal
\* to r in both the mirror and the GPU buffer and changes no other slot,
\* nor the length, nor the capacity; with i >= live length nothing at all
\* changes and no GPU write is issued.
C11_UpdateInstance ==
    [][op'.name = "update_instance"
        => \A r \in op'.set : Updated(mesh, mesh', op'.index, r)]_vars

\* an out-of-range update was asked of a mesh with spare capacity at the
\* index given, and left it alone
C11_Witness ==
    /\ op.name = "update_instance"
    /\ op.index >= op.n
    /\ op.index < mesh.instance_capacity
    /\ Len(mesh.instances) = op.n
    /\ op.n >= 1

\* an in-range update has overwritten a slot that is not the last one
C11_WitnessInRange ==
    /\ op.name = "update_instance"
    /\ op.index + 1 < op.n
    /\ \E r \in op.set : mesh.instances[op.index + 1] = r
    /\ \E j \in 1..Len(mesh.instances) :
          mesh.instances[j] # mesh.instances[op.index + 1]

Replaced(pre, post, xs) ==
    /\ post.instances = xs
    /\ post.instance_capacity = Max(pre.instance_capacity, Len(xs))
    /\ post.instance_buffer.size = post.instance_capacity * RecordSize
    /\ ~post.instance_buffer.error
    /\ \A i \in 1..Len(xs) : post.instance_buffer.data[i] = xs[i]
    /\ (Len(xs) > pre.instance_capacity)
          <=> (post.instance_buffer.id # pre.instance_buffer.id)

\* C12: Mesh.update_all_instances(xs) replaces the whole live array: the
\* live array afterwards equals xs, in the mirror and in the GPU buffer's
\* prefix, and capacity is max(previous capacity, len(xs)); storage is grown
\* before the write whenever len(xs) exceeds the previous capacity.
C12_UpdateAllInstances ==
    [][op'.name = "update_all_instances"
        => \A xs \in op'.set : Replaced(mesh, mesh', xs)]_vars

\* a list longer than the capacity has replaced a non-empty live array
C12_Witness ==
    /\ op.name = "update_all_instances"
    /\ op.n >= 1
    /\ \E xs \in op.set :
          /\ Len(xs) = 2
          /\ mesh.instances = xs
          /\ mesh.instance_capacity = 2
          /\ mesh.instance_buffer.id > 0

\* the length and capacity of a mesh held with all its records
Counts(m, overflow_checks) ==
    [len |-> Len(m.instances), instance_capacity |-> m.instance_capacity,
     overflow_checks |-> overflow_checks, panicked |-> FALSE]

\* the operations on length and capacity alone agree with the operations
\* on the mesh held with all its records
CountsAgree ==
    [][\A b \in BOOLEAN :
        /\ op'.name = "add_instance"
            => Counts(mesh', b) = add_instance_counts(Counts(mesh, b))
        /\ (op'.name = "remove_instance" /\ ~panicked')
            => Counts(mesh', b) = remove_instance_counts(Counts(mesh, b),
                                                        op'.index)
        /\ op'.name = "remove_instances_batch"
            => Counts(mesh', b)
                 = remove_instances_batch_counts(Counts(mesh, b),
                      Cardinality({i \in op'.set : i < Len(mesh.instances)}))
        /\ op'.name = "update_instance" => Counts(mesh', b) = Counts(mesh, b)
        /\ op'.name = "update_all_instances"
            => \A xs \in op'.set :
                  Counts(mesh', b)
                    = update_all_instances_counts(Counts(mesh, b), Len(xs))
      ]_vars

\* C13: across any sequence of add, remove, batch-remove, update and
\* replace-all on a mesh, instance_capacity never decreases, the doubling in
\* add_instance being instance_capacity * 2 computed in u32.
C13_CapacityNeverShrinks ==
    [][mesh'.instance_capacity >= mesh.instance_capacity]_vars

\* a full mesh of 1342177 records has doubled its capacity to the largest
\* the device limit allows
C13_Witness ==
    /\ op.name = "add_instance"
    /\ op.n = 1342177
    /\ mesh.len = 1342178
    /\ mesh.instance_capacity = 2684354
    /\ ~panicked

\* the place of a call in the list of calls made, 0 when it is not made
RECURSIVE PlaceOf(_, _)
PlaceOf(calls, call) ==
    IF calls = <<>> THEN 0
    ELSE IF calls[Len(calls)] = call /\ PlaceOf(SubSeq(calls, 1, Len(calls) - 1), call) = 0
    THEN Len(calls)
    ELSE PlaceOf(SubSeq(calls, 1, Len(calls) - 1), call)

Before(calls, first, second) ==
    PlaceOf(calls, second) # 0 =>
        PlaceOf(calls, first) # 0
        /\ PlaceOf(calls, first) < PlaceOf(calls, second)

MappedSlotRemoved(calls) == PlaceOf(calls, "colliders.remove") # 0

\* C25 (as stated): within one Scene.remove_instance call on an in-range
\* mapped slot, the physics object is destroyed first (collider before rigid
\* body), the render-side swap-remove is performed second, and the
\* re-keying of the former-last instance's mapping is performed last.
C25_RemovalStepOrder ==
    [][op'.name = "remove_instance" =>
          \A calls \in op'.set :
              MappedSlotRemoved(calls) =>
                /\ PlaceOf(calls, "colliders.remove") = 1
                /\ PlaceOf(calls, "bodies.remove") = 2
                /\ PlaceOf(calls, "mesh.remove_instance") = 3
                /\ Before(calls, "mesh.remove_instance", "objects.insert")]_vars

\* C25 (amended): within one Scene.remove_instance call on an in-range
\* mapped slot, the render-side swap-remove is performed first, the physics
\* object is destroyed second (collider before rigid body), and the
\* re-keying of the former-last instance's mapping is performed last.
C25_RemovalStepOrderAmended ==
    [][op'.name = "remove_instance" =>
          \A calls \in op'.set :
              MappedSlotRemoved(calls) =>
                /\ PlaceOf(calls, "mesh.remove_instance") = 1
                /\ PlaceOf(calls, "colliders.remove") = 2
                /\ PlaceOf(calls, "bodies.remove") = 3
                /\ Before(calls, "bodies.remove", "objects.insert")
                /\ PlaceOf(calls, "objects.insert") \in {0, Len(calls)}]_vars

\* a mapped slot that is not the last has been removed and the mapped last
\* instance re-keyed
C25_Witness ==
    /\ op.name = "remove_instance"
    /\ \E calls \in op.set :
          MappedSlotRemoved(calls) /\ PlaceOf(calls, "objects.insert") = 4

\* C26: add_instance reallocates only when the live length equals the
\* capacity: on a mesh with live length < capacity (after a removal, or a
\* replace-all with fewer instances) add_instance performs no reallocation,
\* leaves the capacity unchanged, writes the new record at slot = old live
\* length, and leaves slots 0..old length - 1 unchanged.
C26_AddInstanceWithinCapacity ==
    [][(/\ op'.name = "add_instance"
        /\ Len(mesh.instances) < mesh.instance_capacity)
       => LET n == Len(mesh.instances)
          IN  /\ mesh'.instance_buffer.id = mesh.instance_buffer.id
              /\ mesh'.instance_buffer.size = mesh.instance_buffer.size
              /\ ~mesh'.instance_buffer.error
              /\ mesh'.instance_capacity = mesh.instance_capacity
              /\ Len(mesh'.instances) = n + 1
              /\ SubSeq(mesh'.instances, 1, n) = mesh.instances
              /\ mesh'.instance_buffer.data[n + 1] = mesh'.instances[n + 1]
              /\ \A i \in 1..Len(mesh.instance_buffer.data) :
                    i # n + 1 =>
                        mesh'.instance_buffer.data[i]
                            = mesh.instance_buffer.data[i]]_vars

\* a record has been added to a mesh that held at least one instance and
\* fewer than its capacity
C26_Witness ==
    /\ op.name = "add_instance"
    /\ op.n >= 1 /\ op.n < op.index
    /\ mesh.instance_capacity = op.index

C29_FixedBodiesUntagged ==
    \A b \in DOMAIN scene.bodies :
        scene.bodies[b].body_type = "fixed" => scene.bodies[b].user_data = 0

\* C31: after ingestion no mesh key is present in both the colored and the
\* textured registry (a mesh whose primitives classify differently
\* included), so the (mesh key, slot) pairs collected by culling from either
\* registry are removed by remove_instance from the mesh they were
\* collected from.
C31_RegistryDisjointness ==
    scene.loaded =>
        DOMAIN scene.color_meshes \cap DOMAIN scene.texture_meshes = {}

C33_LengthWithinCapacity ==
    Len(mesh.instances) <= mesh.instance_capacity

\* a replace-all with more instances than the mesh could hold has filled
\* the grown mesh to its capacity
C33_Witness ==
    /\ op.name = "update_all_instances"
    /\ op.n < Len(mesh.instances)
    /\ mesh.instance_buffer.id >= 2
    /\ Len(mesh.instances) = mesh.instance_capacity

\* C34: every buffer write and buffer-to-buffer copy issued by Mesh (add,
\* swap-remove, batch-remove, update, replace-all, resize) covers only the
\* byte range [0, instance_capacity * record_size) of the instance buffer
\* that is current at the time of the write, and the buffer's allocated
\* size always equals instance_capacity * record_size.
C34_WritesInBounds ==
    /\ ~mesh.instance_buffer.error
    /\ mesh.instance_buffer.size = mesh.instance_capacity * RecordSize
    /\ Len(mesh.instance_buffer.data) = mesh.instance_capacity

\* the last record of a full buffer of two or more records has just been
\* overwritten in place
C34_Witness ==
    /\ op.name = "update_instance"
    /\ op.index + 1 = mesh.instance_capacity
    /\ op.index >= 1
    /\ \E r \in op.set : mesh.instance_buffer.data[op.index + 1] = r

RECURSIVE DescendingRemoval(_, _)
\* remove_instance(k) for k in the set, largest first
DescendingRemoval(m, indices) ==
    IF indices = {} THEN m
    ELSE LET k == CHOOSE i \in indices : \A j \in indices : j <= i
         IN  DescendingRemoval(Mesh_remove_instance(m, k), indices \ {k})

Occurrences(s, r) == Cardinality({i \in DOMAIN s : s[i] = r})

SameMultiset(s, t) ==
    \A r \in Range(s) \cup Range(t) : Occurrences(s, r) = Occurrences(t, r)

LivePrefix(m) == SubSeq(m.instance_buffer.data, 1, Len(m.instances))

\* C35: for any mesh state and any set of in-range indices,
\* remove_instances_batch and the sequence of remove_instance(k) for k in
\* the set taken in descending order leave the same live length and the same
\* multiset of live records, in the array and in the live prefix of the
\* buffer (only the order may differ).
C35_BatchAgreesWithSwapRemoval ==
    [][(/\ op'.name = "remove_instances_batch"
        /\ \A k \in op'.set : k < Len(mesh.instances))
       => LET one_by_one == DescendingRemoval(mesh, op'.set)
          IN  /\ Len(mesh'.instances) = Len(one_by_one.instances)
              /\ SameMultiset(mesh'.instances, one_by_one.instances)
              /\ SameMultiset(LivePrefix(mesh'), LivePrefix(one_by_one))]_vars

\* the first of three instances has been removed in a batch and the two left
\* differ, so the swap-removal would leave them in the other order
C35_Witness ==
    /\ op.name = "remove_instances_batch"
    /\ op.n = 3
    /\ op.set = {0}
    /\ Len(mesh.instances) = 2
    /\ mesh.instances[1] # mesh.instances[2]

(***************************************************************************)
(* Properties of ingestion                                                 *)
(***************************************************************************)
\* the registries a document's geometry mesh is classified into
RegistriesOf(S, entry) ==
    {r \in 1..2 : (r = 1 /\ "colored" \in entry.variants)
                   \/ (r = 2 /\ "textured" \in entry.variants)}

\* the mesh of a document is stored, in each registry it is classified
\* into, with a single instance at the identity transform
StoredWithDefault(T, entry) ==
    /\ ~T.panicked
    /\ T.loaded
    /\ \A r \in RegistriesOf(T, entry) :
          LET mesh_id == hash_string_to_u64(entry.name)
          IN  /\ mesh_id \in DOMAIN Registries(T)[r]
              /\ Len(Registries(T)[r][mesh_id].instances) = 1
              /\ Registries(T)[r][mesh_id].instances[1].model = <<0, 0, 0>>

\* C17: after ingestion, a geometry-defining mesh that no instance node
\* references is still stored in its registry with exactly one live
\* instance whose model matrix is the identity, and ingestion completes.
C17_DefaultInstance ==
    [][\A entry \in Entries :
          (/\ op'.name = "init_level"
           /\ scene' = init_level(scene, entry)
           /\ Len(entry.positions) = 0)
          => StoredWithDefault(scene', entry)]_vars

\* the fixed bodies of a scene, in handle order
RECURSIVE InOrder(_)
InOrder(handles) ==
    IF handles = {} THEN <<>>
    ELSE LET b == CHOOSE x \in handles : \A y \in handles : x <= y
         IN  <<b>> \o InOrder(handles \ {b})

FixedBodies(T) ==
    InOrder({b \in DOMAIN T.bodies : T.bodies[b].body_type = "fixed"})

Instanced(T, entry) ==
    LET mesh_id == hash_string_to_u64(entry.name)
        k == Len(entry.positions)
        holding == {r \in 1..2 : mesh_id \in DOMAIN Registries(T)[r]}
    IN  /\ ~T.panicked
        /\ Cardinality(holding) = 1
        /\ \A r \in holding :
              LET instances == Registries(T)[r][mesh_id].instances
              IN  /\ Len(instances) = k
                  /\ \A i \in 1..k :
                        instances[i].model = entry.positions[i]
        /\ Len(FixedBodies(T)) = k
        /\ \A i \in 1..Len(FixedBodies(T)) :
              i <= k
              /\ T.bodies[FixedBodies(T)[i]].position = entry.positions[i]

\* C18: for a geometry node named G and k >= 1 mesh-bearing nodes named
\* G.<suffix>, ingestion yields exactly one mesh entry keyed by hash(G) with
\* exactly k live instances, one per instance node in node order, and, G
\* having collider data, exactly k fixed rigid bodies, the i-th at the
\* translation of the i-th instance transform.
C18_EndToEndInstancing ==
    [][\A entry \in Entries :
          (/\ op'.name = "init_level"
           /\ scene' = init_level(scene, entry)
           /\ Len(entry.positions) >= 1)
          => Instanced(scene', entry)]_vars

StaticPopulated(T, entry) ==
    LET mesh_id == hash_string_to_u64(entry.name)
    IN  \A i \in 0..(Len(entry.positions) - 1) :
          IF entry.collider_ok[i + 1]
          THEN /\ bimap_contains_left(T.objects, PackId(mesh_id, i))
               /\ LET pair == bimap_get_by_left(T.objects,
                                                PackId(mesh_id, i))
                  IN  /\ pair[1] \in DOMAIN T.bodies
                      /\ T.bodies[pair[1]].body_type = "fixed"
                      /\ T.bodies[pair[1]].made_for = StaticUid(mesh_id, i)
                      /\ T.bodies[pair[1]].position = entry.positions[i + 1]
                      /\ pair[2] \in DOMAIN T.colliders
                      /\ T.colliders[pair[2]].parent = pair[1]
          ELSE /\ ~bimap_contains_left(T.objects, PackId(mesh_id, i))
               /\ ~\E b \in DOMAIN T.bodies :
                     T.bodies[b].made_for = StaticUid(mesh_id, i)

\* C19: for every collider-bearing mesh and every instance occurrence i
\* whose trimesh collider builds, the object map holds (meshKey << 64) | i ->
\* that instance's fixed body; an instance whose collider build fails gets
\* no body and no map entry, the ids of the later instances are not shifted
\* by the skip, and ingestion of the remaining instances and meshes goes on
\* to its end.
C19_StaticPopulation ==
    [][\A document \in Documents :
          (/\ op'.name = "init_level"
           /\ scene' = init_level_document(scene, document)
           /\ \A n \in DOMAIN document : Len(document[n].positions) >= 1)
          => /\ ~scene'.panicked
             /\ scene'.loaded
             /\ \A n \in DOMAIN document :
                   StaticPopulated(scene', document[n])]_vars

\* a two-mesh document is ingested; the first mesh's first instance has no
\* collider, its second has, and the second mesh has colliders too
C19_Witness ==
    /\ op.name = "init_level" /\ op.n = 2
    /\ ~scene.panicked
    /\ ~bimap_contains_left(scene.objects, PackId(2, 0))
    /\ bimap_contains_left(scene.objects, PackId(2, 1))
    /\ \E i \in 0..1 : bimap_contains_left(scene.objects, PackId(3, i))

\* the index list cut into complete triangles, mirrored or not
TrianglesOf(given, mirrored) ==
    [t \in 1..(Len(given) \div 3) |->
        IF mirrored
        THEN <<given[3 * t - 2], given[3 * t], given[3 * t - 1]>>
        ELSE <<given[3 * t - 2], given[3 * t - 1], given[3 * t]>>]

\* C20: when an instance transform has negative determinant the collider's
\* triangle list is the mesh's index list with elements 1 and 2 of every
\* complete triangle swapped; with a non-negative determinant the index list
\* is used unchanged; the mesh's shared index list is never modified, so the
\* flip of one instance does not affect the collider of the next.
C20_MirrorWindingFlip ==
    op.name = "add_gltf" =>
        /\ scene.indices = scene.given
        /\ Len(scene.triangles) = Len(scene.determinants)
        /\ \A i \in 1..Len(scene.determinants) :
              scene.triangles[i]
                  = TrianglesOf(scene.given, scene.determinants[i] < 0)

\* two triangles whose last two corners differ; a mirrored instance is
\* followed by an unmirrored one
C20_Witness ==
    /\ op.name = "add_gltf"
    /\ Len(scene.given) = 6
    /\ scene.given[2] # scene.given[3] /\ scene.given[5] # scene.given[6]
    /\ scene.determinants = <<-1, 1>>
    /\ scene.triangles[1] # scene.triangles[2]

(***************************************************************************)
(* Properties of data collection                                           *)
(***************************************************************************)
Accepted(primitive) == primitive.indices /\ primitive.positions = "some"

Holds(map, name, id) == name \in DOMAIN map /\ map[name] = id

\* C21: every accepted primitive (indices present, positions non-empty) is
\* registered as textured if and only if it has texture coordinates and its
\* material has a base-color texture and that texture's image source is an
\* embedded buffer view; in every other case (an external-URI image
\* included) it is registered as colored; it is never registered as both or
\* neither, and in both cases it is recorded for collider generation.
C21_VariantClassification ==
    [][op'.name = "add_primitive" =>
          LET id == <<op'.index, op'.n>>
              name == scene.nodes[id[1]].name
              primitive == PrimitiveAt(scene, id)
              textured == /\ primitive.tex_coords
                          /\ primitive.texture # "none"
                          /\ primitive.texture = "view"
          IN  Accepted(primitive) =>
                /\ ~scene'.panicked
                /\ textured =>
                      /\ Holds(scene'.textured_meshes, name, id)
                      /\ scene'.colored_meshes = scene.colored_meshes
                /\ ~textured =>
                      /\ Holds(scene'.colored_meshes, name, id)
                      /\ scene'.textured_meshes = scene.textured_meshes
                /\ Holds(scene'.collider_meshes, name, id)]_vars

\* a primitive with texture coordinates and an external-URI image has just
\* been registered as colored
C21_Witness ==
    /\ op.name = "add_primitive"
    /\ LET id == <<op.index, op.n>>
       IN  /\ PrimitiveAt(scene, id).tex_coords
           /\ PrimitiveAt(scene, id).texture = "uri"
           /\ Holds(scene.colored_meshes, scene.nodes[id[1]].name, id)
           /\ Holds(scene.collider_meshes, scene.nodes[id[1]].name, id)

Advanced(I, J) ==
    IF I.next_primitive = Len(I.nodes[I.next_node].primitives)
    THEN J.next_node = I.next_node + 1 /\ J.next_primitive = 1
    ELSE J.next_node = I.next_node
         /\ J.next_primitive = I.next_primitive + 1

\* C22: a primitive with no index list, or with no or empty position data,
\* registers nothing (no colored, textured or collider entry) and does not
\* abort ingestion: the remaining primitives and nodes of the document are
\* still processed.
C22_SkipBadPrimitive ==
    [][op'.name = "add_primitive" =>
          LET primitive == PrimitiveAt(scene, <<op'.index, op'.n>>)
          IN  ~Accepted(primitive) =>
                /\ scene'.colored_meshes = scene.colored_meshes
                /\ scene'.textured_meshes = scene.textured_meshes
                /\ scene'.collider_meshes = scene.collider_meshes
                /\ ~scene'.panicked /\ ~panicked'
                /\ scene'.stage = "collect"
                /\ Advanced(scene, scene')]_vars

Decodes(I, name) == Texture_from_bytes(PrimitiveAt(I, I.textured_meshes[name]))

\* C23: when decoding the embedded image of a textured mesh fails during
\* mesh upload, the failure is reported and the process continues; the other
\* colored and textured meshes and the static physics population are still
\* processed.
C23_DecodeFailureNotFatal ==
    [][(/\ op'.name = "process_meshes"
        /\ \E name \in DOMAIN scene.textured_meshes : ~Decodes(scene, name))
       => /\ ~scene'.panicked /\ ~panicked'
          /\ scene'.color_pipeline = DOMAIN scene.colored_meshes
          /\ \A name \in DOMAIN scene.textured_meshes :
                Decodes(scene, name) => name \in scene'.texture_pipeline
          /\ scene'.bodies = DOMAIN scene.collider_meshes]_vars

(***************************************************************************)
(* Properties of the pipeline                                              *)
(***************************************************************************)
\* C24: add_mesh(key, ..., instances) stores a mesh under key whose live
\* array equals instances and whose capacity equals len(instances); this
\* holds for len(instances) = 0 as well (the mesh is stored and draws zero
\* instances), and a later add_instance on such a mesh succeeds with
\* capacity 1.
C24_AddMesh ==
    [][/\ op'.name = "add_mesh" =>
            \A xs \in op'.set :
                /\ op'.mesh_id \in DOMAIN scene'.meshes
                /\ scene'.meshes[op'.mesh_id].instances = xs
                /\ scene'.meshes[op'.mesh_id].instance_capacity = Len(xs)
                /\ scene'.meshes[op'.mesh_id].instance_buffer.data = xs
                /\ begin_render_pass(scene')[op'.mesh_id][1].count
                       = Len(xs)
                /\ \A id \in DOMAIN scene.meshes \ {op'.mesh_id} :
                       id \in DOMAIN scene'.meshes
                       /\ scene'.meshes[id] = scene.meshes[id]
       /\ (op'.name = "add_instance"
           /\ scene.meshes[op'.mesh_id].instance_capacity = 0) =>
            \A r \in op'.set :
                /\ scene'.meshes[op'.mesh_id].instances = <<r>>
                /\ scene'.meshes[op'.mesh_id].instance_capacity = 1
                /\ ~scene'.meshes[op'.mesh_id].instance_buffer.error
                /\ scene'.meshes[op'.mesh_id].instance_buffer.data = <<r>>]_vars

\* a mesh stored without instances has taken its first instance
C24_Witness ==
    /\ op.name = "add_instance" /\ op.index = 0 /\ op.n = 0
    /\ scene.meshes[op.mesh_id].instance_capacity = 1

\* C27: the render routine issues exactly one indexed draw per stored mesh
\* with instance range 0..live length (never 0..capacity), so a record left
\* in the GPU buffer at or beyond the live length by a swap-remove,
\* batch-remove or shrinking replace-all is never drawn.
C27_DrawCoverage ==
    [][op'.name = "render" =>
          \A draws \in op'.set :
              /\ DOMAIN draws = DOMAIN scene.meshes
              /\ \A id \in DOMAIN scene.meshes :
                    /\ Len(draws[id]) = 1
                    /\ draws[id][1].first = 0
                    /\ draws[id][1].count = Len(scene.meshes[id].instances)
                    /\ draws[id][1].records = scene.meshes[id].instances]_vars

\* a frame is drawn while two meshes are stored, one of them with a record
\* left in its buffer beyond the live length
C27_Witness ==
    /\ op.name = "render"
    /\ DOMAIN scene.meshes = PipelineKeys
    /\ \E id \in DOMAIN scene.meshes :
          LET m == scene.meshes[id]
          IN  /\ Len(m.instance_buffer.data) > Len(m.instances)
              /\ m.instance_buffer.data[Len(m.instances) + 1] # ZeroRecord

(***************************************************************************)
(* Properties of the texture pipeline                                      *)
(***************************************************************************)
\* C36: every instance-buffer write issued by TextureMesh.update_instance
\* and TextureMesh.update_all_instances lies within the buffer allocated by
\* TexturePipeline.add_mesh, and instances_len never exceeds the number of
\* records that buffer can hold.
C36_TexturedWritesInBounds ==
    \A i \in DOMAIN scene.meshes :
        /\ ~scene.meshes[i].instance_buffer.error
        /\ scene.meshes[i].instances_len * RecordSize
               <= scene.meshes[i].instance_buffer.size

(***************************************************************************)
(* Properties of the time steps                                            *)
(***************************************************************************)
RECURSIVE SumSeq(_)
SumSeq(s) == IF s = <<>> THEN 0 ELSE Head(s) + SumSeq(Tail(s))

\* min(delta * time_scale, max_dt) of the call last made
Capped == f32_min(CHOOSE x \in op.set : TRUE, op.index)

AbsDiff(a, b) == IF a < b THEN b - a ELSE a - b

\* C37 as stated: a call with substeps >= 1 runs the pipeline exactly
\* `substeps` times, each with time step min(delta * time_scale, max_dt) /
\* substeps, and the total simulated time of the call equals
\* min(delta * time_scale, max_dt) and does not exceed max_dt.
C37_StepTotal ==
    (op.name = "step" /\ op.n >= 1)
    => /\ Len(scene.runs) = op.n
       /\ \A i \in DOMAIN scene.runs : scene.runs[i] = f32_div(Capped, op.n)
       /\ SumSeq(scene.runs) = Capped
       /\ SumSeq(scene.runs) <= op.index

\* C37, amended: a call with substeps >= 1 runs the pipeline exactly
\* `substeps` times, each with the f32 quotient of
\* min(delta * time_scale, max_dt) by substeps; the total differs from
\* min(delta * time_scale, max_dt) by at most substeps / 2 times the
\* distance between neighbouring f32 values at the quotient, and equals it
\* when substeps is 1, 2 or 4.
C37_StepTotalRounded ==
    (op.name = "step" /\ op.n >= 1)
    => /\ Len(scene.runs) = op.n
       /\ scene.dt = Capped
       /\ \A i \in DOMAIN scene.runs : scene.runs[i] = f32_div(Capped, op.n)
       /\ 2 * AbsDiff(SumSeq(scene.runs), Capped)
              <= op.n * f32_ulp(Capped, op.n)
       /\ op.n \in {1, 2, 4} => SumSeq(scene.runs) = Capped

\* a call of three substeps has advanced the simulation by more than max_dt
C37_Witness ==
    /\ op.name = "step"
    /\ op.n = 3
    /\ Len(scene.runs) = 3
    /\ SumSeq(scene.runs) > op.index

(***************************************************************************)
(* Properties of the frame                                                 *)
(***************************************************************************)
\* the bodies whose nonzero tag names slot s of the meshes keyed mesh_id
TaggedFor(S, mesh_id, s) ==
    {b \in DOMAIN S.bodies :
        S.bodies[b].user_data # 0
        /\ S.bodies[b].user_data = PackId(mesh_id, s)}

Synced(S, T) ==
    /\ ~T.panicked
    /\ T.objects = S.objects
    /\ T.bodies = S.bodies
    /\ T.colliders = S.colliders
    /\ \A r \in 1..2 :
          /\ DOMAIN Registries(T)[r] = DOMAIN Registries(S)[r]
          /\ \A mesh_id \in DOMAIN Registries(S)[r] :
                LET pre == Registries(S)[r][mesh_id]
                    post == Registries(T)[r][mesh_id]
                IN  /\ Len(post.instances) = Len(pre.instances)
                    /\ post.instance_capacity = pre.instance_capacity
                    /\ MirrorMatchesBuffer(post)
                    /\ \A s \in 0..(Len(pre.instances) - 1) :
                          IF TaggedFor(S, mesh_id, s) = {}
                          THEN post.instances[s + 1] = pre.instances[s + 1]
                          ELSE \A b \in TaggedFor(S, mesh_id, s) :
                                  post.instances[s + 1].model
                                      = S.bodies[b].position

\* C15: update_objects writes, for every physics body with a nonzero tag
\* (m, s) and s < live length of mesh m, the record derived from that body's
\* current pose into slot s of mesh m, and changes nothing else: no instance
\* count, no capacity, no object-map entry, no body tag, and no slot that
\* no body's tag names.
C15_SyncEffect ==
    [][op'.name = "update_objects" => Synced(scene, scene')]_vars

\* C30: in every state reachable by ingestion, spawn, removal and culling,
\* every body with a nonzero user-data tag has a tag whose mesh key resolves
\* to a mesh in the colored registry, so the unwrap in update_objects never
\* panics.
C30_SyncNeverFails ==
    /\ scene.loaded =>
          \A b \in DOMAIN scene.bodies :
              scene.bodies[b].user_data # 0 =>
                  IdMesh(scene.bodies[b].user_data)
                      \in DOMAIN scene.color_meshes
    /\ op.name = "update_objects" => ~panicked

(***************************************************************************)
(* Properties of the application's tick                                    *)
(***************************************************************************)
\* a tick's stages hold the physics step, the sync, the culling and the
\* render pass, each one after the one before it has completed
StagesInOrder(stages) ==
    \E i, j, k, l \in 1..Len(stages) :
        /\ i < j /\ j < k /\ k < l
        /\ stages[i] = "step"
        /\ stages[j] = "update_objects"
        /\ stages[k] = "cull_instances_behind_camera"
        /\ stages[l] = "render"

\* C16: in every update tick the physics step completes before the
\* pose-to-instance sync starts, the sync completes before culling starts,
\* and all of culling's removals complete before the render pass records a
\* draw call.
C16_TickOrdering ==
    (op.name = "redraw_requested" /\ scene.stages # <<>>)
        => StagesInOrder(scene.stages)

====
